---- MODULE Spec2Model ----
(***************************************************************************)
(* TSI Oracle rating engine (lib/tsi): the T0 match engine (elo.ts), the   *)
(* T1 news calculators (news.ts), the display mapping (mapping.ts) and the *)
(* orchestrator (engine.ts).                                               *)
(*                                                                         *)
(* Every quantity of the engine is a JavaScript `number`.  The model keeps *)
(* the structure of that arithmetic - binary floating point, round to      *)
(* nearest with ties to even, gradual underflow, overflow to Infinity, NaN *)
(* and `undefined` propagating through every operation - at a reduced      *)
(* width: PBits significant bits and a unit in the last place of 2^-FBits  *)
(* at the smallest exponent.  A finite number is held as the integer count *)
(* of those units.                                                         *)
(***************************************************************************)
EXTENDS Integers, Sequences, FiniteSets, TLC

\* ------------------------------------------------------------ number model

\* Significant bits of a number.
PBits == 10
\* A finite number is an integer multiple of 2^-FBits.
FBits == 12
\* Finite magnitudes are below 2^EBits units; beyond that a result is Infinity.
EBits == 30

Unit == 2^FBits
MaxUnits == 2^EBits

Fin(v) == [k |-> "fin", v |-> v]
Inf(s) == [k |-> "inf", v |-> s]
NaN == [k |-> "nan", v |-> 0]
\* The value of a property that an object does not have.
Undefined == [k |-> "undef", v |-> 0]

IsFinite(a) == a.k = "fin"
\* NaN and undefined poison arithmetic: undefined becomes NaN in any operation.
IsNaN(a) == a.k \in {"nan", "undef"}

\* The element of a one-element set.  An operator applies The to the set of its
\* results over its operands so that each operand is evaluated once.
The(S) == CHOOSE v \in S : TRUE

Abs(x) == IF x < 0 THEN -x ELSE x
Sgn(x) == IF x < 0 THEN -1 ELSE IF x > 0 THEN 1 ELSE 0

RECURSIVE BitLen(_)
BitLen(n) == IF n = 0 THEN 0 ELSE 1 + BitLen(n \div 2)

RECURSIVE TrailingZeros(_)
TrailingZeros(n) == IF n = 0 \/ n % 2 = 1 THEN 0 ELSE 1 + TrailingZeros(n \div 2)

\* q + r/d (0 <= r < d) to the nearest integer, ties to even.
NearestEven(q, r, d) ==
  IF 2 * r > d \/ (2 * r = d /\ q % 2 = 1) THEN q + 1 ELSE q

\* The magnitude n/d units (n >= 0, d > 0, n/d < 2^EBits) rounded to PBits
\* significant bits, ties to even.  Below 2^PBits units the spacing is one unit
\* (gradual underflow).
RoundMag(n, d) ==
  LET q == n \div d
      r == n % d
  IN IF q < 2^PBits
       THEN NearestEven(q, r, d)
       ELSE LET u == 2^(BitLen(q) - PBits)
                q2 == q \div u
                rem == q % u
                up == 2 * rem > u \/ (2 * rem = u /\ (r > 0 \/ q2 % 2 = 1))
            IN (IF up THEN q2 + 1 ELSE q2) * u

\* A signed result; a magnitude that rounds up to 2^EBits units overflows.
Make(s, mag) == IF mag >= MaxUnits THEN Inf(s) ELSE Fin(s * mag)

\* m * 2^sh units (m >= 0), rounded.
Scaled(s, m, sh) ==
  IF m = 0 THEN Fin(0)
  ELSE IF sh >= 0
    THEN IF BitLen(m) + sh > EBits THEN Inf(s) ELSE Make(s, RoundMag(m * 2^sh, 1))
    ELSE IF -sh > EBits THEN Fin(0) ELSE Make(s, RoundMag(m, 2^(-sh)))

\* The number nearest to the rational n/d (d > 0).
FromRat(n, d) == Make(Sgn(n), RoundMag(Abs(n) * Unit, d))
FromInt(n) == FromRat(n, 1)

Zero == Fin(0)
One == FromInt(1)
Half == FromRat(1, 2)

FNeg(a) ==
  IF IsNaN(a) THEN NaN
  ELSE IF a.k = "inf" THEN Inf(-a.v)
  ELSE Fin(-a.v)

\* a + b
Sum(a, b) ==
  IF IsNaN(a) \/ IsNaN(b) THEN NaN
  ELSE IF a.k = "inf"
    THEN IF b.k = "inf" /\ b.v # a.v THEN NaN ELSE a
  ELSE IF b.k = "inf" THEN b
  ELSE LET s == a.v + b.v IN Make(Sgn(s), RoundMag(Abs(s), 1))

\* a + b, the operands evaluated once
FAdd(a, b) ==
  The({Sum(x, y) : x \in {a}, y \in {b}})

\* a - b
FSub(a, b) == FAdd(a, FNeg(b))

\* a * b
Product(a, b) ==
  IF IsNaN(a) \/ IsNaN(b) THEN NaN
  ELSE IF a.k = "inf" \/ b.k = "inf"
    THEN IF a.v = 0 \/ b.v = 0 THEN NaN ELSE Inf(Sgn(a.v) * Sgn(b.v))
  ELSE IF a.v = 0 \/ b.v = 0 THEN Fin(0)
  ELSE LET ta == TrailingZeros(Abs(a.v))
           tb == TrailingZeros(Abs(b.v))
           ma == Abs(a.v) \div 2^ta
           mb == Abs(b.v) \div 2^tb
       IN Scaled(Sgn(a.v) * Sgn(b.v), ma * mb, ta + tb - FBits)

\* a * b, the operands evaluated once
FMul(a, b) ==
  The({Product(x, y) : x \in {a}, y \in {b}})

\* a / b
Quotient(a, b) ==
  IF IsNaN(a) \/ IsNaN(b) THEN NaN
  ELSE IF a.k = "inf"
    THEN IF b.k = "inf" THEN NaN
         ELSE Inf(a.v * (IF b.v < 0 THEN -1 ELSE 1))
  ELSE IF b.k = "inf" THEN Fin(0)
  ELSE IF b.v = 0
    THEN IF a.v = 0 THEN NaN ELSE Inf(Sgn(a.v))
  ELSE IF a.v = 0 THEN Fin(0)
  ELSE LET ta == TrailingZeros(Abs(a.v))
           tb == TrailingZeros(Abs(b.v))
           ma == Abs(a.v) \div 2^ta
           mb == Abs(b.v) \div 2^tb
           sg == Sgn(a.v) * Sgn(b.v)
           sh == ta - tb + FBits
       IN IF sh < 0
            THEN Make(sg, RoundMag(ma, mb * 2^(-sh)))
            ELSE LET s1 == IF sh < EBits - PBits THEN sh ELSE EBits - PBits
                     m == RoundMag(ma * 2^s1, mb)
                 IN IF BitLen(m) + (sh - s1) > EBits
                      THEN Inf(sg)
                      ELSE Make(sg, m * 2^(sh - s1))

\* a / b, the operands evaluated once
FDiv(a, b) ==
  The({Quotient(x, y) : x \in {a}, y \in {b}})

\* Position of a number on the extended real line, for comparisons.
Ord(a) == IF a.k = "inf" THEN a.v * MaxUnits ELSE a.v

\* a < b, a <= b, a === b: all false when either side is NaN or undefined
\* (undefined === undefined is not used by the engine).
FLt(a, b) == ~IsNaN(a) /\ ~IsNaN(b) /\ Ord(a) < Ord(b)
FLe(a, b) == ~IsNaN(a) /\ ~IsNaN(b) /\ Ord(a) <= Ord(b)
FEq(a, b) == ~IsNaN(a) /\ ~IsNaN(b) /\ Ord(a) = Ord(b)
FGt(a, b) == FLt(b, a)

\* Math.max(a, b), Math.min(a, b)
MathMax(a, b) == IF IsNaN(a) \/ IsNaN(b) THEN NaN ELSE IF Ord(a) >= Ord(b) THEN a ELSE b
MathMin(a, b) == IF IsNaN(a) \/ IsNaN(b) THEN NaN ELSE IF Ord(a) <= Ord(b) THEN a ELSE b

\* Math.abs(a)
MathAbs(a) ==
  IF IsNaN(a) THEN NaN ELSE IF a.k = "inf" THEN Inf(1) ELSE Fin(Abs(a.v))

\* --------------------------------------------------- Math.pow and Math.exp

\* Fixed point with GBits fraction bits, used inside the exponential.
GBits == 14
GOne == 2^GBits
GMul(x, y) == (x * y) \div GOne

\* e^x for 0 <= x < ln 2, x and the result in GBits fixed point: the Taylor
\* polynomial of degree 6 in Horner form.
ExpPoly(x) ==
  GOne + GMul(x, GOne + GMul(x \div 2, GOne + GMul(x \div 3, GOne +
         GMul(x \div 4, GOne + GMul(x \div 5, GOne + x \div 6)))))

\* ln 2 in GBits fixed point.
Ln2G == 11357

\* 2^(t / 2^FBits) for an integer t of 2^-FBits units, rounded to a number.
Exp2(t) ==
  LET n == t \div Unit
      f == t % Unit
      r == ExpPoly((f * Ln2G) \div Unit)
  IN Scaled(1, r, n + FBits - GBits)

\* Beyond this many units the result has overflowed or underflowed whatever the
\* base (2 <= base): the exponent is saturated before it is scaled.
ExpClamp == 64 * Unit

\* base^y as 2^(y * log2(base)), log2(base) = li + lf / 2^FBits.
Power(li, lf, y) ==
  IF IsNaN(y) THEN NaN
  ELSE IF y.k = "inf" THEN (IF y.v > 0 THEN Inf(1) ELSE Fin(0))
  ELSE IF y.v >= ExpClamp THEN Inf(1)
  ELSE IF y.v <= -ExpClamp THEN Fin(0)
  ELSE Exp2(y.v * li + (y.v * lf) \div Unit)

\* base^y, the exponent evaluated once
PowBase(li, lf, y) == The({Power(li, lf, x) : x \in {y}})

\* Math.pow(10, y): log2(10) = 3 + 1319/4096
Pow10(y) == PowBase(3, 1319, y)

\* Math.exp(y): log2(e) = 1 + 1813/4096
MathExp(y) == PowBase(1, 1813, y)

\* The fraction bits of log2(m) for a mantissa m in [1, 2) held in GBits fixed
\* point, by repeated squaring: i bits are still to come, acc holds the others.
RECURSIVE Log2Frac(_, _, _)
Log2Frac(m, i, acc) ==
  IF i = 0 THEN acc
  ELSE LET m2 == (m * m) \div GOne
       IN IF m2 >= 2 * GOne
            THEN Log2Frac(m2 \div 2, i - 1, 2 * acc + 1)
            ELSE Log2Frac(m2, i - 1, 2 * acc)

\* ln(a): NaN below 0, -Infinity at 0, else ln 2 * log2(a).
Ln(a) ==
  IF IsNaN(a) THEN NaN
  ELSE IF a.k = "inf" THEN (IF a.v > 0 THEN Inf(1) ELSE NaN)
  ELSE IF a.v < 0 THEN NaN
  ELSE IF a.v = 0 THEN Inf(-1)
  ELSE LET b == BitLen(a.v) - 1
           m == IF b <= GBits THEN a.v * 2^(GBits - b) ELSE a.v \div 2^(b - GBits)
           e == b - FBits
           ln == e * Ln2G + (Log2Frac(m, GBits, 0) * Ln2G) \div GOne
       IN FromRat(ln, GOne)

\* Math.log(a), the operand evaluated once
MathLog(a) == The({Ln(x) : x \in {a}})


\* ------------------------------------------------------------------ types

\* enum CompetitionType
CompetitionType == {"league", "ucl", "uel", "uecl", "domestic_cup", "supercup"}

\* obj[key]: the value of the property, or undefined when the object has none.
Lookup(table, key) == IF key \in DOMAIN table.at THEN table.at[key] ELSE Undefined

\* A table of the parameter set, as the loader leaves it: an object with some
\* keys, or not there at all (then indexing it throws a TypeError).
Table(f) == [defined |-> TRUE, at |-> f]
NoTable == [defined |-> FALSE, at |-> <<>>]

\* What a call does: it returns a value or it throws.
Return(v) == [outcome |-> "return", value |-> v]
Throw(e) == [outcome |-> "throw", value |-> e]

\* ---------------------------------------------------------------- state

VARIABLES
  config,   \* the parameter set loaded at module initialisation
  call,     \* the invocation: [op |-> name of the exposed function, args |-> its arguments]
  pc,       \* "ready" before the invocation runs, "done" after
  result,   \* what the invocation did: Return(value) or Throw(error); NoResult before
  frames,   \* the invocations in flight when several callers share the module, by caller
  run       \* the locals of a run of processAllMatches and where it stands

vars == <<config, call, pc, result, frames, run>>

NoResult == [outcome |-> "none", value |-> <<>>]

\* No callers sharing the module, no run of processAllMatches.
NoFrames == <<>>
NoRun == [at |-> "none"]

\* ------------------------------------------------------- T0 match engine

\* A slip: every competition weighted as the league.
getCompetitionWeight_AlwaysLeague(comp) == Lookup(config.T0.w_comp, "league")

\* getCompetitionWeight: config.T0.w_comp[comp]
getCompetitionWeight(comp) == Lookup(config.T0.w_comp, comp)

\* A slip: the 1 + of the logistic denominator left out.
expectedScore_NoOnePlus(homeRating, awayRating, homeAdvantage) ==
  FDiv(One,
       Pow10(FDiv(FNeg(FAdd(FSub(homeRating, awayRating), homeAdvantage)),
                  FromInt(400))))

\* expectedScore: 1 / (1 + 10^(-(homeRating - awayRating + homeAdvantage) / 400))
expectedScore(homeRating, awayRating, homeAdvantage) ==
  FDiv(One,
       FAdd(One,
            Pow10(FDiv(FNeg(FAdd(FSub(homeRating, awayRating), homeAdvantage)),
                       FromInt(400)))))

\* A slip: a draw scored as a home loss.
actualScore_DrawAsLoss(homeGoals, awayGoals) ==
  IF FGt(homeGoals, awayGoals) THEN One ELSE Zero

\* actualScore: Win=1, Draw=0.5, Loss=0
actualScore(homeGoals, awayGoals) ==
  IF FGt(homeGoals, awayGoals) THEN One
  ELSE IF FLt(homeGoals, awayGoals) THEN Zero
  ELSE Half

\* A slip: the bonus given to the side that conceded more.
marginBonus_ToLoser(homeGoals, awayGoals) ==
  IF ~config.T0.margin.enabled THEN Zero
  ELSE LET alpha == config.T0.margin.alpha
           cap_goals == config.T0.margin.cap_goals
           gd == FSub(awayGoals, homeGoals)
           gdCapped == MathMax(FNeg(cap_goals), MathMin(cap_goals, gd))
       IN FMul(alpha, gdCapped)

\* A slip: the goal difference used without the cap.
marginBonus_Uncapped(homeGoals, awayGoals) ==
  IF ~config.T0.margin.enabled THEN Zero
  ELSE FMul(config.T0.margin.alpha, FSub(homeGoals, awayGoals))

\* marginBonus: alpha * clamp(homeGoals - awayGoals, -cap_goals, cap_goals)
marginBonus(homeGoals, awayGoals) ==
  IF ~config.T0.margin.enabled THEN Zero
  ELSE LET alpha == config.T0.margin.alpha
           cap_goals == config.T0.margin.cap_goals
           gd == FSub(homeGoals, awayGoals)
           gdCapped == MathMax(FNeg(cap_goals), MathMin(cap_goals, gd))
       IN FMul(alpha, gdCapped)

\* A slip: the home advantage applied at a neutral venue too.
homeAdvantageFor_Always(isNeutralVenue) == config.T0.H_home_adv

\* A slip: an omitted flag taken for a neutral venue (isNeutralVenue === false ? H : 0).
homeAdvantageFor_OmittedIsNeutral(isNeutralVenue) ==
  IF isNeutralVenue = "false" THEN config.T0.H_home_adv ELSE Zero

\* The home-field term: isNeutralVenue ? 0 : config.T0.H_home_adv
homeAdvantageFor(isNeutralVenue) ==
  IF isNeutralVenue = "true" THEN Zero ELSE config.T0.H_home_adv

\* A slip: the away side updated from its own expectancy, without the margin bonus.
MatchResult_AwayOwnDelta(input, delta, K, S, homeExpected, awayExpected) ==
  LET awayDelta == FMul(K, FSub(FSub(One, S), awayExpected))
  IN [homeNewRating |-> FAdd(input.homeRating, delta),
      awayNewRating |-> FAdd(input.awayRating, awayDelta),
      homeDelta |-> delta,
      awayDelta |-> awayDelta,
      homeExpected |-> homeExpected,
      awayExpected |-> awayExpected]

\* The MatchResult that processMatch returns.
MatchResult(input, delta, K, S, homeExpected, awayExpected) ==
  [homeNewRating |-> FAdd(input.homeRating, delta),
   awayNewRating |-> FSub(input.awayRating, delta),
   homeDelta |-> delta,
   awayDelta |-> FNeg(delta),
   homeExpected |-> homeExpected,
   awayExpected |-> awayExpected]

\* processMatch
processMatch(input) ==
  LET H == homeAdvantageFor(input.isNeutralVenue)
      homeExpected == expectedScore(input.homeRating, input.awayRating, H)
      awayExpected == FSub(One, homeExpected)
      K == FMul(config.T0.K_base, getCompetitionWeight(input.competitionType))
      S == actualScore(input.homeGoals, input.awayGoals)
      mb == marginBonus(input.homeGoals, input.awayGoals)
      delta == FAdd(FMul(K, FSub(S, homeExpected)), mb)
  IN IF ~config.T0.w_comp.defined
       THEN Throw("TypeError")
       ELSE Return(MatchResult(input, delta, K, S, homeExpected, awayExpected))


\* ------------------------------------------------------- T1 news engine

\* VALUE_TIER_SCORES
VALUE_TIER_SCORES ==
  [S |-> One, A |-> FromRat(75, 100), B |-> FromRat(55, 100),
   C |-> FromRat(35, 100), D |-> FromRat(20, 100), missing |-> FromRat(35, 100)]

\* Milliseconds of a day, (1000 * 60 * 60 * 24), in the clock ticks of the model:
\* a Date is held as its getTime() in ticks of half a day.
TicksPerDay == 2

\* (a.getTime() - b.getTime()) / (1000 * 60 * 60 * 24): the difference of two
\* integer timestamps is exact, the division rounds.
DaysBetween(a, b) == FDiv(FromInt(a - b), FromInt(TicksPerDay))

\* A slip: a supplied impact of 0 taken for an absent one (a truthiness test).
calculatePlayerImpact_ZeroIsAbsent(injury) ==
  IF injury.playerImpact.k # "undef" /\ injury.playerImpact # Zero THEN injury.playerImpact
  ELSE LET minutes == IF injury.minutesPlayed.k = "undef" THEN Zero
                      ELSE injury.minutesPlayed
           minutesShare == MathMin(FDiv(minutes, FromInt(900)), One)
           valueTier == IF injury.valueTier = "undefined" THEN "missing"
                        ELSE injury.valueTier
           valueTierScore == VALUE_TIER_SCORES[valueTier]
       IN FAdd(FMul(FromRat(6, 10), minutesShare), FMul(FromRat(4, 10), valueTierScore))

\* calculatePlayerImpact
calculatePlayerImpact(injury) ==
  IF injury.playerImpact.k # "undef" THEN injury.playerImpact
  ELSE LET minutes == IF injury.minutesPlayed.k = "undef" THEN Zero
                      ELSE injury.minutesPlayed
           minutesShare == MathMin(FDiv(minutes, FromInt(900)), One)
           valueTier == IF injury.valueTier = "undefined" THEN "missing"
                        ELSE injury.valueTier
           valueTierScore == VALUE_TIER_SCORES[valueTier]
       IN FAdd(FMul(FromRat(6, 10), minutesShare), FMul(FromRat(4, 10), valueTierScore))

\* A slip: sum = p * u * r * d, each absence overwriting the ones before it.
InjurySum_Overwrite(injuries, i, sum) ==
  IF i > Len(injuries) THEN sum
  ELSE LET injury == injuries[Len(injuries)]
           p == calculatePlayerImpact(injury)
           u == Lookup(config.T1.injuries.status_u, injury.status)
           r == Lookup(config.T1.injuries.position_r, injury.position)
           d == Lookup(config.T1.injuries.duration_d, injury.durationCategory)
       IN FMul(FMul(FMul(p, u), r), d)

\* The loop of calculateInjuryAdjustment from index i on: sum += p * u * r * d
RECURSIVE InjurySum(_, _, _)
InjurySum(injuries, i, sum) ==
  IF i > Len(injuries) THEN sum
  ELSE LET injury == injuries[i]
           p == calculatePlayerImpact(injury)
           u == Lookup(config.T1.injuries.status_u, injury.status)
           r == Lookup(config.T1.injuries.position_r, injury.position)
           d == Lookup(config.T1.injuries.duration_d, injury.durationCategory)
       IN InjurySum(injuries, i + 1, FAdd(sum, FMul(FMul(FMul(p, u), r), d)))

\* calculateInjuryAdjustment: -beta * SUM(p_k * u_k * r_k * d_k)
calculateInjuryAdjustment(injuries) ==
  IF Len(injuries) = 0 THEN Return(Zero)
  ELSE IF ~config.T1.injuries.status_u.defined
          \/ ~config.T1.injuries.position_r.defined
          \/ ~config.T1.injuries.duration_d.defined
    THEN Throw("TypeError")
  ELSE Return(FMul(FNeg(config.T1.injuries.beta), InjurySum(injuries, 1, Zero)))

\* A slip: the ramp clamped at 1 only, negative before the effective date.
transferRamp_NoFloor(currentDate, effectiveDate, tau) ==
  LET daysDiff == DaysBetween(currentDate, effectiveDate)
  IN MathMin(One, FDiv(daysDiff, tau))

\* transferRamp: clip((d - t_transfer) / tau, 0, 1)
transferRamp(currentDate, effectiveDate, tau) ==
  LET daysDiff == DaysBetween(currentDate, effectiveDate)
  IN MathMax(Zero, MathMin(One, FDiv(daysDiff, tau)))

\* A slip: every contribution added, a departure like an arrival.
TransferSum_AllAdded(transfers, currentDate, i, adjustment) ==
  LET contribution(k) ==
        FMul(FMul(config.T1.transfers.gamma, transfers[k].playerImpact),
             transferRamp(currentDate, transfers[k].effectiveDate,
                          Lookup(config.T1.transfers.tau_days, transfers[k].type)))
      from(k) == [j \in 1..(Len(transfers) - k + 1) |-> contribution(k + j - 1)]
  IN IF i > Len(transfers) THEN adjustment
     ELSE LET terms == from(i)
              sumFrom[n \in 0..Len(terms)] ==
                IF n = 0 THEN adjustment ELSE FAdd(sumFrom[n - 1], terms[n])
          IN sumFrom[Len(terms)]

\* The loop of calculateTransferAdjustment from index i on.
RECURSIVE TransferSum(_, _, _, _)
TransferSum(transfers, currentDate, i, adjustment) ==
  IF i > Len(transfers) THEN adjustment
  ELSE LET transfer == transfers[i]
           tau == Lookup(config.T1.transfers.tau_days, transfer.type)
           ramp == transferRamp(currentDate, transfer.effectiveDate, tau)
           contribution == FMul(FMul(config.T1.transfers.gamma, transfer.playerImpact), ramp)
       IN TransferSum(transfers, currentDate, i + 1,
                      IF transfer.direction = "in"
                        THEN FAdd(adjustment, contribution)
                        ELSE FSub(adjustment, contribution))

\* calculateTransferAdjustment
calculateTransferAdjustment(transfers, currentDate) ==
  IF Len(transfers) = 0 THEN Return(Zero)
  ELSE IF ~config.T1.transfers.tau_days.defined THEN Throw("TypeError")
  ELSE Return(TransferSum(transfers, currentDate, 1, Zero))

\* A slip: no test for a null manager change, whose changeDate is then read.
calculateManagerAdjustment_NoNullGuard(managerChange, currentDate) ==
  IF managerChange.isNull \/ ~config.T1.manager.tier_delta.defined THEN Throw("TypeError")
  ELSE LET daysSinceChange == DaysBetween(currentDate, managerChange.changeDate)
           delta == Lookup(config.T1.manager.tier_delta, managerChange.tier)
       IN Return(FMul(delta, MathExp(FDiv(FNeg(daysSinceChange), config.T1.manager.lambda_days))))

\* A slip: the elapsed days clamped at 0, a change dated after the current date
\* counted as made on it.
calculateManagerAdjustment_ClampedElapsed(managerChange, currentDate) ==
  IF managerChange.isNull THEN Return(Zero)
  ELSE IF ~config.T1.manager.tier_delta.defined THEN Throw("TypeError")
  ELSE LET daysSinceChange == MathMax(Zero, DaysBetween(currentDate, managerChange.changeDate))
           delta == Lookup(config.T1.manager.tier_delta, managerChange.tier)
       IN Return(FMul(delta, MathExp(FDiv(FNeg(daysSinceChange), config.T1.manager.lambda_days))))

\* A slip: the sign of the exponent lost, the adjustment growing with time.
calculateManagerAdjustment_Growing(managerChange, currentDate) ==
  IF managerChange.isNull THEN Return(Zero)
  ELSE IF ~config.T1.manager.tier_delta.defined THEN Throw("TypeError")
  ELSE LET daysSinceChange == DaysBetween(currentDate, managerChange.changeDate)
           delta == Lookup(config.T1.manager.tier_delta, managerChange.tier)
       IN Return(FMul(delta, MathExp(FDiv(daysSinceChange, config.T1.manager.lambda_days))))

\* calculateManagerAdjustment: tier_delta * e^(-(d - t_change) / lambda)
calculateManagerAdjustment(managerChange, currentDate) ==
  IF managerChange.isNull THEN Return(Zero)
  ELSE IF ~config.T1.manager.tier_delta.defined THEN Throw("TypeError")
  ELSE LET daysSinceChange == DaysBetween(currentDate, managerChange.changeDate)
           delta == Lookup(config.T1.manager.tier_delta, managerChange.tier)
       IN Return(FMul(delta, MathExp(FDiv(FNeg(daysSinceChange), config.T1.manager.lambda_days))))

\* A slip: the two terms not floored at 0, so that long rest and few matches
\* earn a bonus.
calculateFatigueAdjustment_NoFloor(restDays, matchesIn14Days) ==
  Return(FSub(FMul(FNeg(config.T1.fatigue.phi), FSub(FromInt(4), restDays)),
              FMul(config.T1.fatigue.psi, FSub(matchesIn14Days, FromInt(4)))))

\* calculateFatigueAdjustment: -phi * max(0, 4 - rest_days) - psi * max(0, matches_14 - 4)
calculateFatigueAdjustment(restDays, matchesIn14Days) ==
  Return(FSub(FMul(FNeg(config.T1.fatigue.phi), MathMax(Zero, FSub(FromInt(4), restDays))),
              FMul(config.T1.fatigue.psi, MathMax(Zero, FSub(matchesIn14Days, FromInt(4))))))

\* A slip: the manager adjustment left out of the total.
NewsAdjustment_NoManager(injury, transfer, manager, fatigue) ==
  [total |-> FAdd(FAdd(injury, transfer), fatigue),
   components |-> [injury |-> injury, transfer |-> transfer,
                   manager |-> manager, fatigue |-> fatigue]]

\* What calculateTotalNewsAdjustment returns:
\* total: injury + transfer + manager + fatigue, and the four components.
NewsAdjustment(injury, transfer, manager, fatigue) ==
  [total |-> FAdd(FAdd(FAdd(injury, transfer), manager), fatigue),
   components |-> [injury |-> injury, transfer |-> transfer,
                   manager |-> manager, fatigue |-> fatigue]]

\* calculateTotalNewsAdjustment
calculateTotalNewsAdjustment(input) ==
  LET injury == calculateInjuryAdjustment(input.injuries)
      transfer == calculateTransferAdjustment(input.transfers, input.currentDate)
      manager == calculateManagerAdjustment(input.managerChange, input.currentDate)
      fatigue == calculateFatigueAdjustment(input.restDays, input.matchesIn14Days)
  IN IF injury.outcome = "throw" THEN injury
     ELSE IF transfer.outcome = "throw" THEN transfer
     ELSE IF manager.outcome = "throw" THEN manager
     ELSE Return(NewsAdjustment(injury.value, transfer.value, manager.value, fatigue.value))

\* ------------------------------------------------------ display mapping

\* A slip: the sign of the exponent lost, the curve falling.
sigmoid_Falling(x) == FDiv(One, FAdd(One, MathExp(x)))

\* sigmoid: 1 / (1 + e^(-x))
sigmoid(x) == FDiv(One, FAdd(One, MathExp(FNeg(x))))

\* A slip: the curve scaled to display_max, display_min not added.
toDisplay_FromZero(rawElo) ==
  LET m == config.Mapping
  IN FMul(m.display_max, sigmoid(FDiv(FSub(rawElo, m.mu), m.s)))

\* toDisplay: display_min + (display_max - display_min) * sigmoid((rawElo - mu) / s)
toDisplay(rawElo) ==
  LET m == config.Mapping
  IN FAdd(m.display_min,
          FMul(FSub(m.display_max, m.display_min),
               sigmoid(FDiv(FSub(rawElo, m.mu), m.s))))

\* A slip: the display score brought inside the display range before it is
\* inverted, so that the boundary has a finite inverse.
toRaw_Clamped(displayScore) ==
  LET m == config.Mapping
      inside == MathMax(FAdd(m.display_min, One),
                        MathMin(FSub(m.display_max, One), displayScore))
      sigmoidVal == FDiv(FSub(inside, m.display_min),
                         FSub(m.display_max, m.display_min))
  IN FAdd(m.mu, FMul(m.s, MathLog(FDiv(sigmoidVal, FSub(One, sigmoidVal)))))

\* A slip: the logarithm of sigmoidVal, not of its odds.
toRaw_LogOfShare(displayScore) ==
  LET m == config.Mapping
      sigmoidVal == FDiv(FSub(displayScore, m.display_min),
                         FSub(m.display_max, m.display_min))
  IN FAdd(m.mu, FMul(m.s, MathLog(sigmoidVal)))

\* toRaw: mu + s * ln(sigmoidVal / (1 - sigmoidVal))
toRaw(displayScore) ==
  LET m == config.Mapping
      sigmoidVal == FDiv(FSub(displayScore, m.display_min),
                         FSub(m.display_max, m.display_min))
  IN FAdd(m.mu, FMul(m.s, MathLog(FDiv(sigmoidVal, FSub(One, sigmoidVal)))))

\* ----------------------------------------------------------- orchestrator

\* A slip: the fatigue adjustment left out of the sum.
TotalRaw_NoFatigue(baseElo, injuryAdj, transferAdj, managerAdj, fatigueAdj) ==
  FAdd(FAdd(FAdd(baseElo, injuryAdj), transferAdj), managerAdj)

\* input.baseElo + injuryAdj + transferAdj + managerAdj + fatigueAdj
TotalRaw(baseElo, injuryAdj, transferAdj, managerAdj, fatigueAdj) ==
  FAdd(FAdd(FAdd(FAdd(baseElo, injuryAdj), transferAdj), managerAdj), fatigueAdj)

\* A slip: the display score taken from the base rating, not from the total.
TSIOutput_DisplayOfBase(input, injuryAdj, transferAdj, managerAdj, fatigueAdj, totalRaw) ==
  LET displayScore == toDisplay(input.baseElo)
  IN [tsiRaw |-> totalRaw,
      tsiDisplay |-> displayScore,
      components |-> [baseElo |-> input.baseElo,
                      injuryAdj |-> injuryAdj,
                      transferAdj |-> transferAdj,
                      managerAdj |-> managerAdj,
                      fatigueAdj |-> fatigueAdj,
                      totalRaw |-> totalRaw,
                      displayScore |-> displayScore]]

\* The TSIOutput that computeTSI returns.
TSIOutput(input, injuryAdj, transferAdj, managerAdj, fatigueAdj, totalRaw) ==
  LET displayScore == toDisplay(totalRaw)
  IN [tsiRaw |-> totalRaw,
      tsiDisplay |-> displayScore,
      components |-> [baseElo |-> input.baseElo,
                      injuryAdj |-> injuryAdj,
                      transferAdj |-> transferAdj,
                      managerAdj |-> managerAdj,
                      fatigueAdj |-> fatigueAdj,
                      totalRaw |-> totalRaw,
                      displayScore |-> displayScore]]

\* computeTSI
computeTSI(input) ==
  LET injury == calculateInjuryAdjustment(input.injuries)
      transfer == calculateTransferAdjustment(input.transfers, input.currentDate)
      manager == calculateManagerAdjustment(input.managerChange, input.currentDate)
      fatigue == calculateFatigueAdjustment(input.restDays, input.matchesIn14Days)
      totalRaw == TotalRaw(input.baseElo, injury.value, transfer.value, manager.value,
                           fatigue.value)
  IN IF injury.outcome = "throw" THEN injury
     ELSE IF transfer.outcome = "throw" THEN transfer
     ELSE IF manager.outcome = "throw" THEN manager
     ELSE Return(TSIOutput(input, injury.value, transfer.value, manager.value,
                           fatigue.value, totalRaw))


\* ------------------------------------------------------- parameter sets

\* Drop one key of a table: the parameter file does not list that category.
Without(table, key) == Table([c \in (DOMAIN table.at) \ {key} |-> table.at[c]])

\* config.T0 with every competition weighted.
T0Params(K_base, H_home_adv, enabled, alpha) ==
  [K_base |-> K_base,
   H_home_adv |-> H_home_adv,
   w_comp |-> Table([league |-> One, ucl |-> FromRat(12, 10), uel |-> FromRat(11, 10),
                     uecl |-> FromRat(105, 100), domestic_cup |-> FromRat(8, 10),
                     supercup |-> FromRat(6, 10)]),
   margin |-> [enabled |-> enabled, alpha |-> alpha, cap_goals |-> FromInt(2)]]

\* config.T1 with every category weighted.
T1Params ==
  [injuries |->
     [beta |-> FromInt(18),
      status_u |-> Table([out |-> One, injured |-> One, suspended |-> One,
                          doubtful |-> FromRat(40, 100), questionable |-> FromRat(25, 100),
                          probable |-> FromRat(10, 100), unknown |-> FromRat(30, 100)]),
      position_r |-> Table([GK |-> FromRat(115, 100), CB |-> FromRat(110, 100),
                            DM |-> FromRat(105, 100), ST |-> FromRat(108, 100),
                            other |-> One]),
      duration_d |-> Table([lt7 |-> One, d7_21 |-> FromRat(110, 100),
                            d22_60 |-> FromRat(125, 100), gt60 |-> FromRat(140, 100),
                            missing |-> FromRat(110, 100)])],
   transfers |->
     [gamma |-> FromInt(22),
      tau_days |-> Table([permanent |-> FromInt(30), loan |-> FromInt(14)])],
   manager |->
     [lambda_days |-> FromInt(45),
      tier_delta |-> Table([elite |-> FromInt(20), good |-> FromInt(10), neutral |-> Zero,
                            risky |-> FromInt(-8), bad |-> FromInt(-15)])],
   fatigue |-> [phi |-> FromInt(2), psi |-> FromInt(3)]]

\* config.Mapping
MappingParams ==
  [mu |-> FromInt(1850), s |-> FromInt(120),
   display_min |-> FromInt(10), display_max |-> FromInt(1000)]

TSIConfig(T0) == [T0 |-> T0, T1 |-> T1Params, Mapping |-> MappingParams]

\* Parameter sets of type TSIConfig: every weight is a number.
ParamSets ==
  {TSIConfig(T0Params(FromInt(20), FromInt(65), TRUE, FromRat(15, 10))),
   TSIConfig(T0Params(FromInt(32), FromInt(100), FALSE, One))}

\* A category table of the parameter set, by name.
CategoryTables == {"w_comp", "status_u", "position_r", "duration_d", "tau_days", "tier_delta"}

TableOf(cfg, name) ==
  CASE name = "w_comp" -> cfg.T0.w_comp
    [] name = "status_u" -> cfg.T1.injuries.status_u
    [] name = "position_r" -> cfg.T1.injuries.position_r
    [] name = "duration_d" -> cfg.T1.injuries.duration_d
    [] name = "tau_days" -> cfg.T1.transfers.tau_days
    [] name = "tier_delta" -> cfg.T1.manager.tier_delta

WithTable(cfg, name, t) ==
  CASE name = "w_comp" -> [cfg EXCEPT !.T0.w_comp = t]
    [] name = "status_u" -> [cfg EXCEPT !.T1.injuries.status_u = t]
    [] name = "position_r" -> [cfg EXCEPT !.T1.injuries.position_r = t]
    [] name = "duration_d" -> [cfg EXCEPT !.T1.injuries.duration_d = t]
    [] name = "tau_days" -> [cfg EXCEPT !.T1.transfers.tau_days = t]
    [] name = "tier_delta" -> [cfg EXCEPT !.T1.manager.tier_delta = t]

\* The category each table is left without when the parameter file omits one.
OmittedKey ==
  [w_comp |-> "supercup", status_u |-> "unknown", position_r |-> "other",
   duration_d |-> "missing", tau_days |-> "loan", tier_delta |-> "risky"]

\* What loadConfig can return: it casts the parsed file to TSIConfig unchecked,
\* so a table may lack a category or be missing altogether.
LoadedParamSets ==
  LET full == TSIConfig(T0Params(FromInt(20), FromInt(65), TRUE, FromRat(15, 10)))
  IN {full}
     \cup {WithTable(full, t, Without(TableOf(full, t), OmittedKey[t])) : t \in CategoryTables}
     \cup {WithTable(full, t, NoTable) : t \in CategoryTables}


\* --------------------------------------------------------------- inputs

\* Goals of a side run from 0 to MaxGoals.
MaxGoals == 3
\* Lists of injuries and of transfers hold up to this many records.
MaxInjuries == 2
MaxTransfers == 2

\* The lists handed to a calculator on its own hold up to this many records.
MaxRecords == 3
\* Dates run over the clock ticks 0..MaxDate.
MaxDate == 100
\* Rest days and matches in 14 days run from 0 to MaxCount.
MaxCount == 8
\* Raw ratings run from -50 * MaxRawSteps to 50 * MaxRawSteps, display scores from
\* 0 to 10 * MaxDisplaySteps.
MaxRawSteps == 80
MaxDisplaySteps == 101

Ratings == {FromInt(1400), FromInt(1500), FromInt(2000), FromInt(3000)}
Goals == {FromInt(g) : g \in 0..MaxGoals}
\* isNeutralVenue?: boolean
VenueFlags == {"true", "false", "undefined"}

\* interface MatchInput, with the ratings drawn from a set
MatchInputsOver(ratings) ==
  [homeRating : ratings, awayRating : ratings, homeGoals : Goals, awayGoals : Goals,
   competitionType : CompetitionType, isNeutralVenue : VenueFlags]

MatchInputs == MatchInputsOver(Ratings)

\* interface PlayerInjury: one record with its impact given, one with the impact
\* left to be derived from minutes and value tier.
InjuryPool ==
  {[playerId |-> "star1", playerImpact |-> FromRat(7, 10), minutesPlayed |-> Undefined,
    valueTier |-> "undefined", status |-> "out", position |-> "ST",
    durationCategory |-> "d22_60"],
   [playerId |-> "p2", playerImpact |-> Undefined, minutesPlayed |-> FromInt(450),
    valueTier |-> "A", status |-> "unknown", position |-> "other",
    durationCategory |-> "missing"]}

\* interface Transfer
TransferPool ==
  {[playerId |-> "t1", playerImpact |-> FromRat(6, 10), direction |-> "in",
    type |-> "permanent", effectiveDate |-> 30],
   [playerId |-> "t2", playerImpact |-> FromRat(8, 10), direction |-> "out",
    type |-> "loan", effectiveDate |-> 80]}

\* interface PlayerInjury, for the injury calculator on its own: also a record
\* whose supplied impact is 0 (minutes and value tier given as well) and one with
\* neither impact, minutes nor value tier.
PlayerInjuries ==
  InjuryPool
  \cup {[playerId |-> "p3", playerImpact |-> Zero, minutesPlayed |-> FromInt(900),
          valueTier |-> "S", status |-> "out", position |-> "GK",
          durationCategory |-> "gt60"],
         [playerId |-> "p4", playerImpact |-> Undefined, minutesPlayed |-> Undefined,
          valueTier |-> "undefined", status |-> "doubtful", position |-> "CB",
          durationCategory |-> "lt7"],
         [playerId |-> "p5", playerImpact |-> FromRat(7, 10), minutesPlayed |-> Undefined,
          valueTier |-> "undefined", status |-> "out", position |-> "other",
          durationCategory |-> "d22_60"]}

\* interface Transfer, for the transfer calculator on its own: also the departure
\* that mirrors the arrival t1 (same impact, type and effective date).
Transfers ==
  TransferPool
  \cup {[playerId |-> "t3", playerImpact |-> FromRat(6, 10), direction |-> "out",
          type |-> "permanent", effectiveDate |-> 30]}

\* ManagerChange | null
Null == [isNull |-> TRUE, tier |-> "null", changeDate |-> 0]
ManagerChanges ==
  {Null,
   [isNull |-> FALSE, tier |-> "elite", changeDate |-> 10],
   [isNull |-> FALSE, tier |-> "risky", changeDate |-> 90]}

\* ManagerChange | null, for the manager calculator on its own: also a tier whose
\* delta is 0 and the worst tier, changed on the first date.
ManagerEvents ==
  ManagerChanges
  \cup {[isNull |-> FALSE, tier |-> "neutral", changeDate |-> 50],
         [isNull |-> FALSE, tier |-> "bad", changeDate |-> 0]}

CurrentDates == {60, 100}
RestDays == {FromInt(2), FromInt(5)}
MatchCounts == {FromInt(3), FromInt(6)}
BaseElos == {FromInt(1500), FromInt(1800)}

\* Date: getTime() in clock ticks
Dates == 0..MaxDate
Counts == {FromInt(n) : n \in 0..MaxCount}
RawElos == {FromInt(50 * n) : n \in (-MaxRawSteps)..MaxRawSteps} \cup {Inf(1), Inf(-1)}
DisplayScores ==
  {FromInt(10 * n) : n \in 0..MaxDisplaySteps}
  \cup {FromInt(9), FromInt(11), FromInt(999), FromInt(1001)}

\* The lists over a pool with at most n records.
ListsOf(pool, n) == UNION {[1..k -> pool] : k \in 0..n}

\* interface TeamState, with base rating, fatigue counts and date drawn from sets
TeamStatesOver(baseElos, restDays, matchCounts, dates) ==
  [baseElo : baseElos,
   injuries : ListsOf(InjuryPool, MaxInjuries),
   transfers : ListsOf(TransferPool, MaxTransfers),
   managerChange : ManagerChanges,
   restDays : restDays,
   matchesIn14Days : matchCounts,
   currentDate : dates]

TeamStates == TeamStatesOver(BaseElos, RestDays, MatchCounts, CurrentDates)

Call(op, args) == [op |-> op, args |-> args]

\* interface NewsInput: the fields of a TeamState but for baseElo.
NewsInputOf(t) ==
  [injuries |-> t.injuries, transfers |-> t.transfers, managerChange |-> t.managerChange,
   restDays |-> t.restDays, matchesIn14Days |-> t.matchesIn14Days,
   currentDate |-> t.currentDate]

\* The invocations of the exposed functions of the match engine and of the
\* orchestrator, and of the combined calculator of the news engine on the same
\* team states.
CallsOver(matchInputs, teamStates) ==
  {Call("processMatch", i) : i \in matchInputs}
  \cup {Call("computeTSI", t) : t \in teamStates}
  \cup {Call("calculateTotalNewsAdjustment", NewsInputOf(t)) : t \in teamStates}

\* The dates at which lists of two or more transfers are taken: one clock tick in
\* fifteen.
SampleDates == {d \in Dates : d % 15 = 6}

\* The invocations of the four calculators of the news engine: a list of two or
\* more transfers at the dates listDates, everything else at the dates dates.
NewsCallsOver(injuryLists, transferLists, managerChanges, dates, listDates, restDays, counts) ==
  {Call("calculateInjuryAdjustment", [injuries |-> l]) : l \in injuryLists}
  \cup {Call("calculateTransferAdjustment", [transfers |-> l, currentDate |-> d]) :
          l \in {t \in transferLists : Len(t) <= 1}, d \in dates}
  \cup {Call("calculateTransferAdjustment", [transfers |-> l, currentDate |-> d]) :
          l \in {t \in transferLists : Len(t) > 1}, d \in listDates}
  \cup {Call("calculateManagerAdjustment", [managerChange |-> m, currentDate |-> d]) :
          m \in managerChanges, d \in dates}
  \cup {Call("calculateFatigueAdjustment", [restDays |-> r, matchesIn14Days |-> n]) :
          r \in restDays, n \in counts}

\* The invocations of the display mapping and of its inverse.
MappingCallsOver(rawElos, displayScores) ==
  {Call("toDisplay", [rawElo |-> r]) : r \in rawElos}
  \cup {Call("toRaw", [displayScore |-> d]) : d \in displayScores}

Calls ==
  CallsOver(MatchInputs, TeamStates)
  \cup NewsCallsOver(ListsOf(PlayerInjuries, MaxRecords), ListsOf(Transfers, MaxRecords),
                     ManagerEvents, Dates, SampleDates, Counts, Counts)
  \cup MappingCallsOver(RawElos, DisplayScores)

\* Invocations under a parameter set that loadConfig handed over unchecked: one
\* pair of ratings, one base rating, one fatigue reading and one date for a team,
\* the short lists and every date for the calculators, a few scores for the mapping.
LoadedCalls ==
  CallsOver(MatchInputsOver({FromInt(1500)}),
            TeamStatesOver({FromInt(1500)}, {FromInt(2)}, {FromInt(6)}, {100}))
  \cup NewsCallsOver(ListsOf(InjuryPool, MaxInjuries), ListsOf(TransferPool, MaxTransfers),
                     ManagerChanges, Dates, Dates, RestDays, MatchCounts)
  \cup MappingCallsOver({FromInt(1500), FromInt(1850)}, {FromInt(60), FromInt(505)})

\* ------------------------------------------------------------- behaviour

\* The module is loaded with a parameter set of type TSIConfig and one exposed
\* function is about to be invoked.
Init ==
  /\ config \in ParamSets
  /\ call \in Calls
  /\ pc = "ready"
  /\ result = NoResult
  /\ frames = NoFrames
  /\ run = NoRun

\* The same, with the parameter set as loadConfig hands it over.
InitLoaded ==
  /\ config \in LoadedParamSets
  /\ call \in LoadedCalls
  /\ pc = "ready"
  /\ result = NoResult
  /\ frames = NoFrames
  /\ run = NoRun

\* An invocation of `op` runs to its end and leaves what it did in result.
Invoke(op, outcome) ==
  /\ pc = "ready"
  /\ call.op = op
  /\ result' = outcome
  /\ pc' = "done"
  /\ UNCHANGED <<config, call, frames, run>>

ProcessMatch == Invoke("processMatch", processMatch(call.args))

ComputeTSI == Invoke("computeTSI", computeTSI(call.args))

CalculateInjuryAdjustment ==
  Invoke("calculateInjuryAdjustment", calculateInjuryAdjustment(call.args.injuries))

CalculateTransferAdjustment ==
  Invoke("calculateTransferAdjustment",
         calculateTransferAdjustment(call.args.transfers, call.args.currentDate))

CalculateManagerAdjustment ==
  Invoke("calculateManagerAdjustment",
         calculateManagerAdjustment(call.args.managerChange, call.args.currentDate))

CalculateFatigueAdjustment ==
  Invoke("calculateFatigueAdjustment",
         calculateFatigueAdjustment(call.args.restDays, call.args.matchesIn14Days))

CalculateTotalNewsAdjustment ==
  Invoke("calculateTotalNewsAdjustment", calculateTotalNewsAdjustment(call.args))

ToDisplay == Invoke("toDisplay", Return(toDisplay(call.args.rawElo)))

ToRaw == Invoke("toRaw", Return(toRaw(call.args.displayScore)))

Next ==
  \/ ProcessMatch
  \/ ComputeTSI
  \/ CalculateInjuryAdjustment
  \/ CalculateTransferAdjustment
  \/ CalculateManagerAdjustment
  \/ CalculateFatigueAdjustment
  \/ CalculateTotalNewsAdjustment
  \/ ToDisplay
  \/ ToRaw

Spec == Init /\ [][Next]_vars

SpecLoaded == InitLoaded /\ [][Next]_vars


\* --------------------------------------------- callers sharing the module

\* The exposed functions are synchronous and take no lock; callers that share
\* the loaded module are interleaved between the reads of config that a function
\* and the functions it calls make.  Up to MaxCallers callers.
MaxCallers == 2
Callers == 1..MaxCallers

\* The team states and the match input that the callers pass.
SharedTeamStates ==
  {t \in TeamStates :
     /\ Len(t.injuries) = 1 /\ Len(t.transfers) = 1 /\ ~t.managerChange.isNull
     /\ t.injuries[1].playerId = "star1" /\ t.managerChange.tier = "elite"
     /\ t.restDays = FromInt(2) /\ t.matchesIn14Days = FromInt(6)
     /\ t.currentDate = 60 /\ t.baseElo = FromInt(1500)}

SharedMatchInputs ==
  {i \in MatchInputs :
     /\ i.homeRating = FromInt(1500) /\ i.awayRating = FromInt(1400)
     /\ i.homeGoals = FromInt(2) /\ i.awayGoals = FromInt(1)
     /\ i.competitionType = "ucl" /\ i.isNeutralVenue = "false"}

\* The invocations the callers make: every exposed function, on these inputs.
SharedCalls ==
  {Call("processMatch", i) : i \in SharedMatchInputs}
  \cup {Call("computeTSI", t) : t \in SharedTeamStates}
  \cup UNION {{Call("calculateTotalNewsAdjustment", NewsInputOf(t)),
               Call("calculateInjuryAdjustment", [injuries |-> t.injuries]),
               Call("calculateTransferAdjustment",
                    [transfers |-> t.transfers, currentDate |-> t.currentDate]),
               Call("calculateManagerAdjustment",
                    [managerChange |-> t.managerChange, currentDate |-> t.currentDate]),
               Call("calculateFatigueAdjustment",
                    [restDays |-> t.restDays, matchesIn14Days |-> t.matchesIn14Days]),
               Call("toDisplay", [rawElo |-> t.baseElo])} : t \in SharedTeamStates}
  \cup {Call("toRaw", [displayScore |-> FromInt(505)])}

\* The locals of an invocation in flight, undefined until assigned.
NoLocals ==
  [homeExpected |-> Undefined, injury |-> Undefined, transfer |-> Undefined,
   manager |-> Undefined, fatigue |-> Undefined]

\* A caller that has not called yet.
IdleFrame == [call |-> Call("none", <<>>), at |-> "idle", locals |-> NoLocals, result |-> NoResult]

\* The module is loaded and no caller has called yet.
InitCallers ==
  /\ config \in ParamSets
  /\ call = Call("none", <<>>)
  /\ pc = "none"
  /\ result = NoResult
  /\ frames = [c \in Callers |-> IdleFrame]
  /\ run = NoRun

\* The invocation of caller self stands at `at` in one of the functions ops.
At(self, ops, at) == frames[self].call.op \in ops /\ frames[self].at = at

\* The invocation of caller self moves on: its arguments and the parameter set
\* are read, never written.
Advance(self, at, locals, outcome) ==
  /\ frames' = [frames EXCEPT ![self] = [call |-> frames[self].call, at |-> at,
                                         locals |-> locals, result |-> outcome]]
  /\ UNCHANGED <<config, call, pc, result, run>>

\* A calculator called by an orchestrating function has run: its value is kept
\* in the local `name`, or what it threw ends the invocation.
Assigned(self, name, outcome, next) ==
  IF outcome.outcome = "throw"
    THEN Advance(self, "done", frames[self].locals, outcome)
    ELSE Advance(self, next, [frames[self].locals EXCEPT ![name] = outcome.value], NoResult)

\* A caller calls an exposed function.
EnterCall(self) ==
  /\ frames[self].at \in {"idle", "done"}
  /\ \E c \in SharedCalls :
       frames' = [frames EXCEPT ![self] = [call |-> c, at |-> "entered",
                                           locals |-> NoLocals, result |-> NoResult]]
  /\ UNCHANGED <<config, call, pc, result, run>>

\* processMatch: const H, homeExpected
ExpectedScoreStep(self) ==
  /\ At(self, {"processMatch"}, "entered")
  /\ LET i == frames[self].call.args
     IN Assigned(self, "homeExpected",
                 Return(expectedScore(i.homeRating, i.awayRating,
                                      homeAdvantageFor(i.isNeutralVenue))),
                 "expected")

\* processMatch: K, S, mb, delta and the returned MatchResult
MatchResultStep(self) ==
  /\ At(self, {"processMatch"}, "expected")
  /\ LET i == frames[self].call.args
         homeExpected == frames[self].locals.homeExpected
         K == FMul(config.T0.K_base, getCompetitionWeight(i.competitionType))
         S == actualScore(i.homeGoals, i.awayGoals)
         delta == FAdd(FMul(K, FSub(S, homeExpected)), marginBonus(i.homeGoals, i.awayGoals))
     IN Advance(self, "done", frames[self].locals,
                IF ~config.T0.w_comp.defined
                  THEN Throw("TypeError")
                  ELSE Return(MatchResult(i, delta, K, S, homeExpected,
                                          FSub(One, homeExpected))))

\* The two functions that call the four calculators in turn.
Orchestrators == {"computeTSI", "calculateTotalNewsAdjustment"}

\* A slip: the loop shifts the records off the list it was handed.
InjuryStep_ConsumesList(self) ==
  /\ At(self, Orchestrators, "entered")
  /\ LET f == frames[self]
         outcome == calculateInjuryAdjustment(f.call.args.injuries)
     IN frames' = [frames EXCEPT ![self] =
                     [call |-> [f.call EXCEPT !.args.injuries = <<>>], at |-> "injury",
                      locals |-> [f.locals EXCEPT !.injury = outcome.value],
                      result |-> NoResult]]
  /\ UNCHANGED <<config, call, pc, result, run>>

\* const injury = calculateInjuryAdjustment(input.injuries)
InjuryStep(self) ==
  /\ At(self, Orchestrators, "entered")
  /\ Assigned(self, "injury", calculateInjuryAdjustment(frames[self].call.args.injuries),
              "injury")

\* const transfer = calculateTransferAdjustment(input.transfers, input.currentDate)
TransferStep(self) ==
  /\ At(self, Orchestrators, "injury")
  /\ LET input == frames[self].call.args
     IN Assigned(self, "transfer",
                 calculateTransferAdjustment(input.transfers, input.currentDate), "transfer")

\* const manager = calculateManagerAdjustment(input.managerChange, input.currentDate)
ManagerStep(self) ==
  /\ At(self, Orchestrators, "transfer")
  /\ LET input == frames[self].call.args
     IN Assigned(self, "manager",
                 calculateManagerAdjustment(input.managerChange, input.currentDate), "manager")

\* A slip: the fatigue weights negated in the parameter set itself, in passing.
FatigueStep_WritesConfig(self) ==
  /\ At(self, Orchestrators, "manager")
  /\ LET f == frames[self]
         outcome == calculateFatigueAdjustment(f.call.args.restDays, f.call.args.matchesIn14Days)
     IN frames' = [frames EXCEPT ![self] =
                     [call |-> f.call, at |-> "fatigue",
                      locals |-> [f.locals EXCEPT !.fatigue = outcome.value],
                      result |-> NoResult]]
  /\ config' = [config EXCEPT !.T1.fatigue.phi = FNeg(@), !.T1.fatigue.psi = FNeg(@)]
  /\ UNCHANGED <<call, pc, result, run>>

\* const fatigue = calculateFatigueAdjustment(input.restDays, input.matchesIn14Days)
FatigueStep(self) ==
  /\ At(self, Orchestrators, "manager")
  /\ LET input == frames[self].call.args
     IN Assigned(self, "fatigue",
                 calculateFatigueAdjustment(input.restDays, input.matchesIn14Days), "fatigue")

\* computeTSI: totalRaw, displayScore and the returned TSIOutput
TSIOutputStep(self) ==
  /\ At(self, {"computeTSI"}, "fatigue")
  /\ LET input == frames[self].call.args
         l == frames[self].locals
     IN Advance(self, "done", l,
                Return(TSIOutput(input, l.injury, l.transfer, l.manager, l.fatigue,
                                 TotalRaw(input.baseElo, l.injury, l.transfer, l.manager,
                                          l.fatigue))))

\* calculateTotalNewsAdjustment: the returned total and components
NewsAdjustmentStep(self) ==
  /\ At(self, {"calculateTotalNewsAdjustment"}, "fatigue")
  /\ LET l == frames[self].locals
     IN Advance(self, "done", l,
                Return(NewsAdjustment(l.injury, l.transfer, l.manager, l.fatigue)))

\* A calculator or a mapping called on its own runs in one piece.
InjuryCall(self) ==
  /\ At(self, {"calculateInjuryAdjustment"}, "entered")
  /\ Advance(self, "done", NoLocals, calculateInjuryAdjustment(frames[self].call.args.injuries))

TransferCall(self) ==
  /\ At(self, {"calculateTransferAdjustment"}, "entered")
  /\ LET a == frames[self].call.args
     IN Advance(self, "done", NoLocals, calculateTransferAdjustment(a.transfers, a.currentDate))

ManagerCall(self) ==
  /\ At(self, {"calculateManagerAdjustment"}, "entered")
  /\ LET a == frames[self].call.args
     IN Advance(self, "done", NoLocals,
                calculateManagerAdjustment(a.managerChange, a.currentDate))

FatigueCall(self) ==
  /\ At(self, {"calculateFatigueAdjustment"}, "entered")
  /\ LET a == frames[self].call.args
     IN Advance(self, "done", NoLocals,
                calculateFatigueAdjustment(a.restDays, a.matchesIn14Days))

ToDisplayCall(self) ==
  /\ At(self, {"toDisplay"}, "entered")
  /\ Advance(self, "done", NoLocals, Return(toDisplay(frames[self].call.args.rawElo)))

ToRawCall(self) ==
  /\ At(self, {"toRaw"}, "entered")
  /\ Advance(self, "done", NoLocals, Return(toRaw(frames[self].call.args.displayScore)))

NextCallers ==
  \E self \in Callers :
    \/ EnterCall(self)
    \/ ExpectedScoreStep(self)
    \/ MatchResultStep(self)
    \/ InjuryStep(self)
    \/ TransferStep(self)
    \/ ManagerStep(self)
    \/ FatigueStep(self)
    \/ TSIOutputStep(self)
    \/ NewsAdjustmentStep(self)
    \/ InjuryCall(self)
    \/ TransferCall(self)
    \/ ManagerCall(self)
    \/ FatigueCall(self)
    \/ ToDisplayCall(self)
    \/ ToRawCall(self)

SpecCallers == InitCallers /\ [][NextCallers]_vars

\* --------------------------------------------- scripts/processMatches.ts

\* export const BASE_ELO
BASE_ELO == 1500

\* score.fullTime.home, away: number | null
NullScore == [k |-> "null", v |-> 0]

\* Math.round(x): the integer nearest to x, a half rounded up.
MathRound(a) == IF IsFinite(a) THEN FromInt((a.v + Unit \div 2) \div Unit) ELSE a

\* utcDate.slice(0, 10): the day of a timestamp.
DayOf(utcDate) == utcDate \div TicksPerDay

\* A Map with the entry key -> value set.
Put(map, key, value) ==
  [x \in (DOMAIN map) \cup {key} |-> IF x = key THEN value ELSE map[x]]

\* The fetched matches number up to MaxMatches.
MaxMatches == 3

\* The longer lists of fetched matches number up to MaxSeason.
MaxSeason == 5

\* interface APIMatch, as fetched for one league: the k-th match has id k, its
\* teams are two of three teams (a round of each pair, then return matches),
\* its timestamp is one of two, and its full-time score is missing (not
\* played), missing on one side, a home win, an away win or a draw.
APIMatches(k) ==
  LET fixtures == <<<<1, 2>>, <<1, 3>>, <<2, 3>>, <<1, 2>>, <<2, 1>>, <<3, 1>>, <<3, 2>>>>
      teams == fixtures[1 + ((k - 1) % 7)]
  IN [id : {k}, utcDate : {1, 2}, homeTeam : {teams[1]}, awayTeam : {teams[2]},
      fullTime : {[home |-> NullScore, away |-> NullScore],
                  [home |-> FromInt(1), away |-> NullScore],
                  [home |-> FromInt(2), away |-> FromInt(0)],
                  [home |-> FromInt(0), away |-> FromInt(2)],
                  [home |-> FromInt(1), away |-> FromInt(1)]},
      code : {"PL"}]

\* A slip: the comparator turned round, the latest match first.
sortMatchesByDate_Descending(matches) ==
  LET n == Len(matches)
      Pos(i) == 1 + Cardinality({j \in 1..n :
                                   \/ matches[j].utcDate > matches[i].utcDate
                                   \/ matches[j].utcDate = matches[i].utcDate /\ j < i})
  IN [q \in 1..n |-> matches[CHOOSE i \in 1..n : Pos(i) = q]]

\* sortMatchesByDate: Array.prototype.sort by getTime(), a stable sort: matches
\* of the same timestamp keep their order.
sortMatchesByDate(matches) ==
  LET n == Len(matches)
      Pos(i) == 1 + Cardinality({j \in 1..n :
                                   \/ matches[j].utcDate < matches[i].utcDate
                                   \/ matches[j].utcDate = matches[i].utcDate /\ j < i})
  IN [q \in 1..n |-> matches[CHOOSE i \in 1..n : Pos(i) = q]]

\* getResult
getResult(goalsFor, goalsAgainst) ==
  IF FGt(goalsFor, goalsAgainst) THEN "W"
  ELSE IF FLt(goalsFor, goalsAgainst) THEN "L"
  ELSE "D"

\* Math.round(x * 100) / 100
Round2(x) == FDiv(MathRound(FMul(x, FromInt(100))), FromInt(100))

\* teamMap with a team registered unless it is there already (interface
\* TeamInfo, names left out: a team is its id).
Registered(teamMap, id, league) ==
  IF \E t \in 1..Len(teamMap) : teamMap[t].id = id
    THEN teamMap
    ELSE Append(teamMap, [id |-> id, league |-> league])

\* processAllMatches is called on fetched results (FetchResult[], their matches
\* in the order they are iterated), under the shipped parameter set: the run is
\* at its first statement. The results are short lists of any of the matches,
\* or longer lists of matches of one timestamp that are decided or not played.
InitPipeline ==
  /\ config \in {p \in ParamSets : p.T0.margin.enabled}
  /\ call = Call("none", <<>>)
  /\ pc = "none"
  /\ result = NoResult
  /\ frames = NoFrames
  /\ LET Season(k) ==
           {m \in APIMatches(k) :
              /\ m.utcDate = 1
              /\ m.fullTime.home = NullScore <=> m.fullTime.away = NullScore
              /\ m.fullTime.home # m.fullTime.away \/ m.fullTime.home = NullScore}
         RECURSIVE Lists(_, _)
         Lists(n, season) ==
           IF n = 0 THEN {<<>>}
           ELSE {Append(l, m) : l \in Lists(n - 1, season),
                                m \in IF season THEN Season(n) ELSE APIMatches(n)}
         FetchedLists ==
           UNION ({Lists(n, FALSE) : n \in 0..MaxMatches}
                    \cup {Lists(n, TRUE) : n \in 0..MaxSeason})
     IN run \in {[at |-> "collect", fetched |-> fetched, allMatches |-> <<>>,
                  teamMap |-> <<>>, ratings |-> <<>>, sorted |-> <<>>, i |-> 1,
                  history |-> <<>>, matchCounts |-> <<>>, lastMatchDates |-> <<>>,
                  last5Results |-> <<>>, skippedMatches |-> 0, output |-> <<>>] :
                   fetched \in FetchedLists}

\* for (const match of result.matches): the match is collected and its two
\* teams are registered, the home team first.
CollectMatch ==
  /\ run.at = "collect"
  /\ Len(run.allMatches) < Len(run.fetched)
  /\ LET match == run.fetched[Len(run.allMatches) + 1]
     IN run' = [run EXCEPT
                  !.allMatches = Append(@, match),
                  !.teamMap = Registered(Registered(@, match.homeTeam, match.code),
                                         match.awayTeam, match.code)]
  /\ UNCHANGED <<config, call, pc, result, frames>>

\* Steps 3 and 4 up to the loop: every registered team at BASE_ELO with an empty
\* history, no matches and no results; the collected matches sorted in place.
StartProcessing ==
  /\ run.at = "collect"
  /\ Len(run.allMatches) = Len(run.fetched)
  /\ LET ids == {run.teamMap[t].id : t \in 1..Len(run.teamMap)}
         sorted == sortMatchesByDate(run.allMatches)
     IN run' = [run EXCEPT
                  !.at = "process",
                  !.ratings = [t \in ids |-> FromInt(BASE_ELO)],
                  !.allMatches = sorted,
                  !.sorted = sorted,
                  !.history = [t \in ids |-> <<>>],
                  !.matchCounts = [t \in ids |-> 0],
                  !.last5Results = [t \in ids |-> <<>>]]
  /\ UNCHANGED <<config, call, pc, result, frames>>

\* if (homeGoals === null || awayGoals === null)
HasNullScore(match) == match.fullTime.home = NullScore \/ match.fullTime.away = NullScore

\* A slip: a skipped match still counted as played by its two teams.
Skipped_CountsAsPlayed(r) ==
  LET match == r.sorted[r.i]
  IN [r EXCEPT !.i = @ + 1, !.skippedMatches = @ + 1,
               !.matchCounts[match.homeTeam] = @ + 1,
               !.matchCounts[match.awayTeam] = @ + 1]

\* skippedMatches++; continue
Skipped(r) == [r EXCEPT !.i = @ + 1, !.skippedMatches = @ + 1]

\* The loop meets a match without a full-time score.
SkipMatch ==
  /\ run.at = "process"
  /\ run.i <= Len(run.sorted)
  /\ HasNullScore(run.sorted[run.i])
  /\ run' = Skipped(run)
  /\ UNCHANGED <<config, call, pc, result, frames>>

\* The MatchInput built for a match from the current ratings of its teams.
MatchInputFor(ratings, match) ==
  [homeRating |-> ratings[match.homeTeam], awayRating |-> ratings[match.awayTeam],
   homeGoals |-> match.fullTime.home, awayGoals |-> match.fullTime.away,
   competitionType |-> "league", isNeutralVenue |-> "false"]

\* A slip: the away team given the home team's delta.
RatingsAfter_BothGain(ratings, match, res) ==
  Put(Put(ratings, match.homeTeam, res.homeNewRating),
      match.awayTeam, FAdd(ratings[match.awayTeam], res.homeDelta))

\* ratings.set(homeId, result.homeNewRating); ratings.set(awayId, result.awayNewRating)
RatingsAfter(ratings, match, res) ==
  Put(Put(ratings, match.homeTeam, res.homeNewRating), match.awayTeam, res.awayNewRating)


\* interface HistoryEntry
HistoryEntry(match, newRating, delta, opponent, goalsFor, goalsAgainst) ==
  [date |-> DayOf(match.utcDate),
   tsiRaw |-> Round2(newRating),
   tsiDisplay |-> MathRound(toDisplay(newRating)),
   delta |-> Round2(delta),
   opponent |-> opponent,
   result |-> getResult(goalsFor, goalsAgainst),
   goalsFor |-> goalsFor,
   goalsAgainst |-> goalsAgainst,
   matchId |-> match.id]

\* if (!ratings.has(id)): a team that is not in the registry enters it at
\* BASE_ELO with an empty history, no matches and no results.
AutoRegistered(r, id, league) ==
  IF id \in DOMAIN r.ratings THEN r
  ELSE [r EXCEPT !.ratings = Put(@, id, FromInt(BASE_ELO)),
                 !.teamMap = Append(@, [id |-> id, league |-> league]),
                 !.history = Put(@, id, <<>>),
                 !.matchCounts = Put(@, id, 0),
                 !.last5Results = Put(@, id, <<>>)]

\* The loop meets a match with both scores: processMatch on the current ratings
\* of the two teams, then the ratings, match counts, last match dates, last
\* five results (push; if (length > 5) shift()) and histories of both teams.
ApplyMatch ==
  /\ run.at = "process"
  /\ run.i <= Len(run.sorted)
  /\ ~HasNullScore(run.sorted[run.i])
  /\ LET match == run.sorted[run.i]
         homeId == match.homeTeam
         awayId == match.awayTeam
         homeGoals == match.fullTime.home
         awayGoals == match.fullTime.away
         r == AutoRegistered(AutoRegistered(run, homeId, match.code), awayId, match.code)
         res == processMatch(MatchInputFor(r.ratings, match)).value
         Last5After(last5, outcome) ==
           IF Len(last5) + 1 > 5 THEN Tail(Append(last5, outcome)) ELSE Append(last5, outcome)
     IN run' = [r EXCEPT
          !.i = @ + 1,
          !.ratings = RatingsAfter(@, match, res),
          !.matchCounts = Put(Put(@, homeId, @[homeId] + 1), awayId, @[awayId] + 1),
          !.lastMatchDates = Put(Put(@, homeId, DayOf(match.utcDate)),
                                 awayId, DayOf(match.utcDate)),
          !.last5Results = Put(Put(@, homeId,
                                   Last5After(@[homeId], getResult(homeGoals, awayGoals))),
                               awayId, Last5After(@[awayId], getResult(awayGoals, homeGoals))),
          !.history = Put(Put(@, homeId,
                              Append(@[homeId],
                                     HistoryEntry(match, res.homeNewRating, res.homeDelta,
                                                  awayId, homeGoals, awayGoals))),
                          awayId,
                          Append(@[awayId],
                                 HistoryEntry(match, res.awayNewRating, res.awayDelta,
                                              homeId, awayGoals, homeGoals)))]
  /\ UNCHANGED <<config, call, pc, result, frames>>

\* calcForm: the points of the last results over 15, to two decimals.
calcForm(results) ==
  LET points == 3 * Cardinality({j \in 1..Len(results) : results[j] = "W"})
                + Cardinality({j \in 1..Len(results) : results[j] = "D"})
  IN IF Len(results) = 0 THEN Zero
     ELSE Round2(FDiv(FromInt(points), FromInt(15)))

\* interface ProcessingOutput: the current rating of every registered team
\* (interface CurrentTeamRating), sorted by (a, b) => b.tsiRaw - a.tsiRaw, a
\* stable sort, with the ranks assigned in the sorted order; the first ten;
\* the counts and the date range.
ProcessingOutput(r) ==
  LET n == Len(r.sorted)
      CurrentRating(t) ==
        LET id == r.teamMap[t].id
        IN [id |-> id, league |-> r.teamMap[t].league,
            tsiRaw |-> Round2(r.ratings[id]),
            tsiDisplay |-> MathRound(toDisplay(r.ratings[id])),
            rank |-> 0,
            matchesProcessed |-> r.matchCounts[id],
            lastMatchDate |-> IF id \in DOMAIN r.lastMatchDates
                                THEN r.lastMatchDates[id] ELSE "N/A",
            last5 |-> r.last5Results[id],
            form |-> calcForm(r.last5Results[id])]
      Ranked(list) ==
        LET Pos(i) == 1 + Cardinality({j \in 1..Len(list) :
                                         \/ FGt(list[j].tsiRaw, list[i].tsiRaw)
                                         \/ list[j].tsiRaw = list[i].tsiRaw /\ j < i})
        IN {[q \in 1..Len(list) |->
               [list[CHOOSE i \in 1..Len(list) : Pos(i) = q] EXCEPT !.rank = q]]}
      Output(current) ==
        [teams |-> r.teamMap,
         current |-> current,
         history |-> r.history,
         top10 |-> [q \in 1..(IF Len(current) < 10 THEN Len(current) ELSE 10) |->
                      [rank |-> current[q].rank, id |-> current[q].id,
                       league |-> current[q].league,
                       tsiDisplay |-> current[q].tsiDisplay, tsiRaw |-> current[q].tsiRaw]],
         totalMatches |-> n - r.skippedMatches,
         skippedMatches |-> r.skippedMatches,
         dateRange |-> [first |-> IF n > 0 THEN DayOf(r.sorted[1].utcDate) ELSE "N/A",
                        last |-> IF n > 0 THEN DayOf(r.sorted[n].utcDate) ELSE "N/A"]]
  IN The({Output(current) :
            current \in UNION {Ranked(list) :
                                 list \in {[t \in 1..Len(r.teamMap) |-> CurrentRating(t)]}}})

\* Step 5: the loop is over, the output is built and returned.
BuildOutput ==
  /\ run.at = "process"
  /\ run.i > Len(run.sorted)
  /\ run' = [run EXCEPT !.at = "done", !.output = ProcessingOutput(run)]
  /\ UNCHANGED <<config, call, pc, result, frames>>

NextPipeline ==
  \/ CollectMatch
  \/ StartProcessing
  \/ SkipMatch
  \/ ApplyMatch
  \/ BuildOutput

SpecPipeline == InitPipeline /\ [][NextPipeline]_vars

\* ---------------------------------------------------------------- claims

\* The invocation of `op` has run.
Done(op) == pc = "done" /\ call.op = op
\* ... and returned a value.
Returned(op) == Done(op) /\ result.outcome = "return"

\* a + b + c + d + e, left to right
Sum5(a, b, c, d, e) == FAdd(FAdd(FAdd(FAdd(a, b), c), d), e)

\* C1: whenever computeTSI has run on a TeamState it has returned, and in what
\* it returned baseElo + injuryAdj + transferAdj + managerAdj + fatigueAdj equals
\* totalRaw, components.baseElo is the input's baseElo, and tsiRaw is
\* components.totalRaw.
C1_ComponentsSumToTotalRaw ==
  Done("computeTSI") =>
    /\ result.outcome = "return"
    /\ LET c == result.value.components
       IN /\ FEq(Sum5(c.baseElo, c.injuryAdj, c.transferAdj, c.managerAdj, c.fatigueAdj),
                 c.totalRaw)
          /\ FEq(c.baseElo, call.args.baseElo)
          /\ FEq(result.value.tsiRaw, c.totalRaw)

\* C1 witness: computeTSI returned for a team with two injuries, two transfers,
\* a manager change and fatigue, each adjustment being non-zero.
C1_Witness ==
  /\ Returned("computeTSI")
  /\ Len(call.args.injuries) = 2
  /\ Len(call.args.transfers) = 2
  /\ ~call.args.managerChange.isNull
  /\ LET c == result.value.components
     IN /\ c.injuryAdj.v # 0
        /\ c.transferAdj.v # 0
        /\ c.managerAdj.v # 0
        /\ c.fatigueAdj.v # 0

\* C2: whenever processMatch has run on a MatchInput it has returned with
\* homeDelta + awayDelta = 0, awayDelta the negation of homeDelta,
\* homeNewRating = homeRating + homeDelta and awayNewRating = awayRating - homeDelta.
C2_ZeroSum ==
  Done("processMatch") =>
    /\ result.outcome = "return"
    /\ LET r == result.value
           i == call.args
       IN /\ FEq(FAdd(r.homeDelta, r.awayDelta), Zero)
          /\ FEq(r.awayDelta, FNeg(r.homeDelta))
          /\ FEq(r.homeNewRating, FAdd(i.homeRating, r.homeDelta))
          /\ FEq(r.awayNewRating, FSub(i.awayRating, r.homeDelta))

\* C2 witness: a decided match between unequal ratings, with the margin bonus on,
\* that moved both ratings.
C2_Witness ==
  /\ Returned("processMatch")
  /\ config.T0.margin.enabled
  /\ call.args.homeRating # call.args.awayRating
  /\ call.args.homeGoals # call.args.awayGoals
  /\ result.value.homeDelta.v # 0
  /\ result.value.homeNewRating # call.args.homeRating
  /\ result.value.awayNewRating # call.args.awayRating

\* C3: what computeTSI returns has tsiDisplay = toDisplay(totalRaw),
\* components.displayScore = tsiDisplay, and every component equal to what the
\* standalone calculator returns for the same slice of the input.
C3_BreakdownPopulated ==
  Done("computeTSI") =>
    /\ result.outcome = "return"
    /\ LET r == result.value
           c == result.value.components
           i == call.args
       IN /\ FEq(r.tsiDisplay, toDisplay(c.totalRaw))
          /\ FEq(c.displayScore, r.tsiDisplay)
          /\ FEq(c.baseElo, i.baseElo)
          /\ FEq(c.injuryAdj, calculateInjuryAdjustment(i.injuries).value)
          /\ FEq(c.transferAdj,
                 calculateTransferAdjustment(i.transfers, i.currentDate).value)
          /\ FEq(c.managerAdj,
                 calculateManagerAdjustment(i.managerChange, i.currentDate).value)
          /\ FEq(c.fatigueAdj,
                 calculateFatigueAdjustment(i.restDays, i.matchesIn14Days).value)
          /\ FEq(c.totalRaw,
                 Sum5(i.baseElo, c.injuryAdj, c.transferAdj, c.managerAdj, c.fatigueAdj))

\* C3 witness: computeTSI returned a display score away from the one of the base
\* rating, for a team with an injury and a transfer.
C3_Witness ==
  /\ Returned("computeTSI")
  /\ Len(call.args.injuries) > 0
  /\ Len(call.args.transfers) > 0
  /\ result.value.tsiDisplay # toDisplay(call.args.baseElo)
  /\ result.value.components.totalRaw # call.args.baseElo

\* C4: what processMatch returns has homeExpected and awayExpected both in [0, 1]
\* and summing to exactly 1.
C4_ExpectedInUnitInterval ==
  Done("processMatch") =>
    /\ result.outcome = "return"
    /\ LET he == result.value.homeExpected
           ae == result.value.awayExpected
       IN /\ FLe(Zero, he) /\ FLe(he, One)
          /\ FLe(Zero, ae) /\ FLe(ae, One)
          /\ FEq(FAdd(he, ae), One)

\* C4 witness: a home expectancy strictly between 0 and 1/2, where its complement
\* to 1 has a coarser spacing than it has.
C4_Witness ==
  /\ Returned("processMatch")
  /\ FLt(Zero, result.value.homeExpected)
  /\ FLt(result.value.homeExpected, FromRat(1, 4))

\* C5: the home-field term of processMatch is 0 when isNeutralVenue is true and
\* H_home_adv otherwise, also when the flag is omitted; so equal ratings on a
\* neutral venue give homeExpected = awayExpected = 0.5 exactly, whatever the
\* goals and the competition.
C5_HomeFieldTerm ==
  Done("processMatch") =>
    /\ result.outcome = "return"
    /\ LET i == call.args
           H == IF i.isNeutralVenue = "true" THEN Zero ELSE config.T0.H_home_adv
       IN /\ FEq(result.value.homeExpected, expectedScore(i.homeRating, i.awayRating, H))
          /\ (i.isNeutralVenue = "true" /\ i.homeRating = i.awayRating) =>
               /\ FEq(result.value.homeExpected, Half)
               /\ FEq(result.value.awayExpected, Half)

\* C5 witness: equal ratings on a neutral venue, a decided match outside the league.
C5_Witness ==
  /\ Returned("processMatch")
  /\ call.args.isNeutralVenue = "true"
  /\ call.args.homeRating = call.args.awayRating
  /\ call.args.homeGoals # call.args.awayGoals
  /\ call.args.competitionType # "league"
  /\ result.value.homeExpected = Half


\* The sign of homeGoals - awayGoals, and whether its magnitude reaches cap_goals.
GoalDiffSign(i) == Sgn(i.homeGoals.v - i.awayGoals.v)
AtOrBeyondCap(i) == Abs(i.homeGoals.v - i.awayGoals.v) >= config.T0.margin.cap_goals.v

\* The match input i with another score line.
WithGoals(i, hg, ag) == [i EXCEPT !.homeGoals = hg, !.awayGoals = ag]

\* C6: with ratings, venue flag and competition fixed, two results whose goal
\* differences have the same sign and both reach cap_goals give the same
\* homeDelta; the margin bonus lies in [-alpha * cap_goals, alpha * cap_goals] and
\* is 0 when the margin option is disabled.
C6_MarginCap ==
  Done("processMatch") =>
    /\ result.outcome = "return"
    /\ LET i == call.args
           mb == marginBonus(i.homeGoals, i.awayGoals)
           bound == FMul(config.T0.margin.alpha, config.T0.margin.cap_goals)
       IN /\ AtOrBeyondCap(i) =>
               \A hg \in Goals, ag \in Goals :
                 LET j == WithGoals(i, hg, ag)
                 IN (AtOrBeyondCap(j) /\ GoalDiffSign(j) = GoalDiffSign(i)) =>
                      FEq(processMatch(j).value.homeDelta, result.value.homeDelta)
          /\ FLe(FNeg(bound), mb) /\ FLe(mb, bound)
          /\ ~config.T0.margin.enabled => FEq(mb, Zero)

\* C6 witness: a win by more than cap_goals with the margin option enabled.
C6_Witness ==
  /\ Returned("processMatch")
  /\ config.T0.margin.enabled
  /\ call.args.homeGoals.v - call.args.awayGoals.v > config.T0.margin.cap_goals.v
  /\ result.value.homeDelta.v > 0

\* C7: homeDelta = K * (S - homeExpected) + marginBonus with S fixed by comparing
\* the goals alone (1 for more home goals, 0 for fewer, 0.5 for equal) and
\* K = K_base * w_comp[competitionType].
C7_DeltaFormula ==
  Done("processMatch") =>
    /\ result.outcome = "return"
    /\ LET i == call.args
           S == IF i.homeGoals.v > i.awayGoals.v THEN One
                ELSE IF i.homeGoals.v < i.awayGoals.v THEN Zero
                ELSE Half
           K == FMul(config.T0.K_base, config.T0.w_comp.at[i.competitionType])
       IN FEq(result.value.homeDelta,
              FAdd(FMul(K, FSub(S, result.value.homeExpected)),
                   marginBonus(i.homeGoals, i.awayGoals)))

\* C7 witness: a draw outside the league between unequal ratings.
C7_Witness ==
  /\ Returned("processMatch")
  /\ call.args.homeGoals = call.args.awayGoals
  /\ call.args.competitionType = "domestic_cup"
  /\ call.args.homeRating # call.args.awayRating
  /\ result.value.homeDelta.v # 0

\* The competitions weighted w in the parameter set.
Weighted(w) == {c \in CompetitionType : Lookup(config.T0.w_comp, c) = w}

\* The homeDelta of the match input i played in competition c.
DeltaIn(i, c) == processMatch([i EXCEPT !.competitionType = c]).value.homeDelta

\* C8 as stated: with ratings, goals and venue fixed, the homeDelta of a
\* competition weighted 1.2 is strictly greater in magnitude than, and between 10%
\* and 30% larger than, the homeDelta of a competition weighted 1.0.
C8_AsStated ==
  (Returned("processMatch") /\ call.args.competitionType \in Weighted(FromRat(12, 10))) =>
    \A c \in Weighted(One) :
      LET d12 == Abs(result.value.homeDelta.v)
          d10 == Abs(DeltaIn(call.args, c).v)
      IN d12 > d10 /\ 10 * d12 > 11 * d10 /\ 10 * d12 < 13 * d10

\* C8 amended: with ratings, goals and venue fixed, the homeDelta of a competition
\* weighted 1.2 has the sign of the homeDelta of a competition weighted 1.0, a
\* magnitude never smaller and at most 30% larger; it is strictly greater, and
\* between 10% and 30% larger, whenever K_base * |S - homeExpected| is not 0 and at
\* least twice the magnitude of the margin bonus.
C8_WeightScaling ==
  (Returned("processMatch") /\ call.args.competitionType \in Weighted(FromRat(12, 10))) =>
    \A c \in Weighted(One) :
      LET i == call.args
          d12 == result.value.homeDelta.v
          d10 == DeltaIn(i, c).v
          a == MathAbs(FMul(config.T0.K_base,
                            FSub(actualScore(i.homeGoals, i.awayGoals),
                                 result.value.homeExpected))).v
          m == Abs(marginBonus(i.homeGoals, i.awayGoals).v)
      IN /\ Sgn(d12) = Sgn(d10)
         /\ Abs(d12) >= Abs(d10)
         /\ 10 * Abs(d12) <= 13 * Abs(d10)
         /\ (a # 0 /\ a >= 2 * m) =>
              /\ Abs(d12) > Abs(d10)
              /\ 10 * Abs(d12) > 11 * Abs(d10)
              /\ 10 * Abs(d12) < 13 * Abs(d10)

\* C8 witness: a 2-0 home win between equal ratings in a competition weighted 1.2,
\* with the margin bonus on, more than 10% above the league's delta.
C8_Witness ==
  /\ Returned("processMatch")
  /\ call.args.competitionType \in Weighted(FromRat(12, 10))
  /\ config.T0.margin.enabled
  /\ call.args.homeRating = call.args.awayRating
  /\ call.args.homeGoals = FromInt(2) /\ call.args.awayGoals = Zero
  /\ 10 * Abs(result.value.homeDelta.v) > 11 * Abs(DeltaIn(call.args, "league").v)


\* The parameter set has no weight for category key in the table.
Unweighted(table, key) == Lookup(table, key) = Undefined

\* C9 as stated: processMatch called with a competition category that has no
\* weight in the parameter set fails with an error; it never returns a MatchResult.
C9_UnweightedCompetitionFails ==
  (Done("processMatch") /\ Unweighted(config.T0.w_comp, call.args.competitionType)) =>
    result.outcome = "throw"

\* An injury, a transfer or the manager change refers to a category without weight.
UnweightedInjury(injuries) ==
  \E k \in 1..Len(injuries) :
    \/ Unweighted(config.T1.injuries.status_u, injuries[k].status)
    \/ Unweighted(config.T1.injuries.position_r, injuries[k].position)
    \/ Unweighted(config.T1.injuries.duration_d, injuries[k].durationCategory)

UnweightedTransfer(transfers) ==
  \E k \in 1..Len(transfers) : Unweighted(config.T1.transfers.tau_days, transfers[k].type)

UnweightedManager(managerChange) ==
  ~managerChange.isNull /\ Unweighted(config.T1.manager.tier_delta, managerChange.tier)

\* C10 as stated: when an injury, transfer or manager-change record refers to a
\* category that has no weight in the parameter set, the calculator given the
\* record fails instead of returning a number, and so does computeTSI.
C10_UnweightedCategoryFails ==
  /\ (Done("calculateInjuryAdjustment") /\ UnweightedInjury(call.args.injuries)) =>
       result.outcome = "throw"
  /\ (Done("calculateTransferAdjustment") /\ UnweightedTransfer(call.args.transfers)) =>
       result.outcome = "throw"
  /\ (Done("calculateManagerAdjustment") /\ UnweightedManager(call.args.managerChange)) =>
       result.outcome = "throw"
  /\ (Done("computeTSI")
      /\ (\/ UnweightedInjury(call.args.injuries)
          \/ UnweightedTransfer(call.args.transfers)
          \/ UnweightedManager(call.args.managerChange))) =>
       result.outcome = "throw"


\* C11: an empty injuries list, an empty transfers list and a null manager change
\* each make their calculator return exactly 0, whatever the date and whatever
\* the parameter set holds; none of them makes it throw.
C11_NeutralInputs ==
  /\ (Done("calculateInjuryAdjustment") /\ call.args.injuries = <<>>) =>
       result = Return(Zero)
  /\ (Done("calculateTransferAdjustment") /\ call.args.transfers = <<>>) =>
       result = Return(Zero)
  /\ (Done("calculateManagerAdjustment") /\ call.args.managerChange.isNull) =>
       result = Return(Zero)

\* C11 witness: no manager change, under a parameter set that has no table of
\* manager tiers at all, gives 0.
C11_Witness ==
  /\ Done("calculateManagerAdjustment")
  /\ call.args.managerChange.isNull
  /\ ~config.T1.manager.tier_delta.defined
  /\ result = Return(Zero)


\* terms[1] + ... + terms[n], added one after the other from 0.
RECURSIVE SumOfTerms(_, _)
SumOfTerms(terms, n) ==
  IF n = 0 THEN Zero ELSE FAdd(SumOfTerms(terms, n - 1), terms[n])

\* impact * status weight * position weight * duration weight of one absence
AbsenceTerm(injury, impact) ==
  FMul(FMul(FMul(impact, Lookup(config.T1.injuries.status_u, injury.status)),
            Lookup(config.T1.injuries.position_r, injury.position)),
       Lookup(config.T1.injuries.duration_d, injury.durationCategory))

\* The absence of the example: impact 0.7, status weight 1.0, position weight 1.0,
\* duration weight 1.25.
IsExampleAbsence(injury) ==
  /\ injury.playerImpact = FromRat(7, 10)
  /\ Lookup(config.T1.injuries.status_u, injury.status) = One
  /\ Lookup(config.T1.injuries.position_r, injury.position) = One
  /\ Lookup(config.T1.injuries.duration_d, injury.durationCategory) = FromRat(125, 100)

\* C12: calculateInjuryAdjustment returns -beta times the sum over the absences of
\* the list of impact * status weight * position weight * duration weight, each
\* absence adding its own term whatever the others are; the absence of the
\* example alone, with beta 18, gives -15.75.
C12_InjuryFormula ==
  Returned("calculateInjuryAdjustment") =>
    LET l == call.args.injuries
        terms == [k \in 1..Len(l) |-> AbsenceTerm(l[k], calculatePlayerImpact(l[k]))]
    IN /\ result.value = FMul(FNeg(config.T1.injuries.beta), SumOfTerms(terms, Len(l)))
       /\ (Len(l) = 1 /\ IsExampleAbsence(l[1]) /\ config.T1.injuries.beta = FromInt(18)) =>
            result.value = FromRat(-1575, 100)

\* C12 witness: two absences, the second of them the example, each with a term of
\* its own in a sum that is not 0.
C12_Witness ==
  /\ Returned("calculateInjuryAdjustment")
  /\ Len(call.args.injuries) = 2
  /\ call.args.injuries[1] # call.args.injuries[2]
  /\ IsExampleAbsence(call.args.injuries[2])
  /\ AbsenceTerm(call.args.injuries[1], calculatePlayerImpact(call.args.injuries[1])) # Zero
  /\ FLt(result.value, FromRat(-1575, 100))

\* The impact of an absence as the claim gives it: the supplied one, else
\* 0.6 * min(minutesPlayed / 900, 1) + 0.4 * the score of the value tier, absent
\* minutes counting as 0 and an absent tier as 'missing'.
ImpactOf(injury) ==
  IF injury.playerImpact.k # "undef" THEN injury.playerImpact
  ELSE LET minutes == IF injury.minutesPlayed.k = "undef" THEN Zero ELSE injury.minutesPlayed
           tier == IF injury.valueTier = "undefined" THEN "missing" ELSE injury.valueTier
       IN FAdd(FMul(FromRat(6, 10), MathMin(FDiv(minutes, FromInt(900)), One)),
               FMul(FromRat(4, 10), VALUE_TIER_SCORES[tier]))

\* C13: the impact calculateInjuryAdjustment uses for an absence is the supplied
\* playerImpact whenever one is supplied, a supplied 0 included and whatever the
\* minutes and the value tier are; only an absent impact is derived from minutes
\* and value tier.  An absence with a supplied impact of 0 adds nothing.
C13_PlayerImpact ==
  Returned("calculateInjuryAdjustment") =>
    LET l == call.args.injuries
        terms == [k \in 1..Len(l) |-> AbsenceTerm(l[k], ImpactOf(l[k]))]
    IN /\ \A k \in 1..Len(l) : calculatePlayerImpact(l[k]) = ImpactOf(l[k])
       /\ result.value = FMul(FNeg(config.T1.injuries.beta), SumOfTerms(terms, Len(l)))
       /\ (\A k \in 1..Len(l) : l[k].playerImpact = Zero) => result.value = Zero

\* C13 witness: a list with an absence whose supplied impact is 0 although its
\* minutes and value tier are given, and an absence with neither impact, minutes
\* nor value tier, whose derived impact alone makes the adjustment negative.
C13_Witness ==
  /\ Returned("calculateInjuryAdjustment")
  /\ \E j, k \in 1..Len(call.args.injuries) :
        LET a == call.args.injuries[j]
            b == call.args.injuries[k]
        IN /\ a.playerImpact = Zero /\ a.minutesPlayed.k # "undef" /\ a.valueTier # "undefined"
           /\ b.playerImpact.k = "undef" /\ b.minutesPlayed.k = "undef"
           /\ b.valueTier = "undefined"
  /\ Len(call.args.injuries) = 2
  /\ FLt(result.value, Zero)


\* clamp(x, lo, hi)
Clamp(x, lo, hi) == IF FLt(x, lo) THEN lo ELSE IF FGt(x, hi) THEN hi ELSE x

\* The ramp of a transfer at a date as the claim gives it.
RampOf(transfer, date) ==
  Clamp(FDiv(DaysBetween(date, transfer.effectiveDate),
             Lookup(config.T1.transfers.tau_days, transfer.type)),
        Zero, One)

\* gamma * playerImpact * ramp, added for an arrival and subtracted for a departure
Contribution(transfer, date) ==
  LET c == FMul(FMul(config.T1.transfers.gamma, transfer.playerImpact),
                RampOf(transfer, date))
  IN IF transfer.direction = "in" THEN c ELSE FNeg(c)

\* C14: the ramp calculateTransferAdjustment uses for a transfer is
\* clamp(elapsed days / tau_days[type], 0, 1): 0 on and before the effective date,
\* elapsed days / tau while it ramps, 1 once tau days or more have elapsed, never
\* smaller one clock tick later (hence at any later date); a permanent transfer with tau 30 is at 0.5 after 15
\* days.  A transfer alone in the list contributes gamma * impact * that ramp.
C14_TransferRamp ==
  Returned("calculateTransferAdjustment") =>
    LET l == call.args.transfers
        date == call.args.currentDate
    IN /\ \A k \in 1..Len(l) :
            LET tau == Lookup(config.T1.transfers.tau_days, l[k].type)
                days == DaysBetween(date, l[k].effectiveDate)
                ramp == transferRamp(date, l[k].effectiveDate, tau)
            IN /\ ramp = RampOf(l[k], date)
               /\ date <= l[k].effectiveDate => ramp = Zero
               /\ FLe(tau, days) => ramp = One
               /\ (FLt(Zero, days) /\ FLt(days, tau)) =>
                    ramp = FDiv(days, tau) /\ FLt(Zero, ramp) /\ FLt(ramp, One)
               /\ date < MaxDate =>
                    FLe(ramp, transferRamp(date + 1, l[k].effectiveDate, tau))
               /\ (tau = FromInt(30) /\ days = FromInt(15)) => ramp = Half
       /\ Len(l) = 1 => result.value = Contribution(l[1], date)

\* C14 witness: an arrival alone in the list, permanent with tau 30, 15 days after
\* its effective date: half of gamma * impact.
C14_Witness ==
  /\ Returned("calculateTransferAdjustment")
  /\ Len(call.args.transfers) = 1
  /\ call.args.transfers[1].direction = "in"
  /\ Lookup(config.T1.transfers.tau_days, call.args.transfers[1].type) = FromInt(30)
  /\ DaysBetween(call.args.currentDate, call.args.transfers[1].effectiveDate) = FromInt(15)
  /\ result.value = FMul(FMul(config.T1.transfers.gamma, call.args.transfers[1].playerImpact),
                         Half)
  /\ FLt(Zero, result.value)


\* The orders of a list of n records.
Orders(n) == {f \in [1..n -> 1..n] : \A i, j \in 1..n : f[i] = f[j] => i = j}
Reordered(l, f) == [k \in 1..Len(l) |-> l[f[k]]]

\* An arrival and a departure with the same impact, type and effective date.
Mirrored(a, b) ==
  /\ a.direction # b.direction
  /\ a.playerImpact = b.playerImpact
  /\ a.type = b.type
  /\ a.effectiveDate = b.effectiveDate

\* The sum of the magnitudes of the contributions, in units.
RECURSIVE Magnitudes(_, _, _)
Magnitudes(l, date, n) ==
  IF n = 0 THEN 0 ELSE Magnitudes(l, date, n - 1) + Abs(Contribution(l[n], date).v)

\* C15 as stated: calculateTransferAdjustment returns the sum of the contributions
\* gamma * impact * ramp, added for arrivals and subtracted for departures; a
\* mirrored arrival and departure cancel to 0; the result is the same for every
\* order of the list.
C15_AsStated ==
  Returned("calculateTransferAdjustment") =>
    LET l == call.args.transfers
        date == call.args.currentDate
        terms == [k \in 1..Len(l) |-> Contribution(l[k], date)]
    IN /\ result.value = SumOfTerms(terms, Len(l))
       /\ (Len(l) = 2 /\ Mirrored(l[1], l[2])) => result.value = Zero
       /\ \A f \in Orders(Len(l)) :
            calculateTransferAdjustment(Reordered(l, f), date).value = result.value

\* C15 amended: the sum and the cancellation as stated; the result is the same
\* for every order of a list of at most two transfers, and for a longer list of
\* n transfers two orders differ by no more than the rounding of the additions,
\* n * 2^-(PBits - 1) times the sum of the magnitudes of the contributions.
C15_TransferSum ==
  Returned("calculateTransferAdjustment") =>
    LET l == call.args.transfers
        date == call.args.currentDate
        terms == [k \in 1..Len(l) |-> Contribution(l[k], date)]
    IN /\ result.value = SumOfTerms(terms, Len(l))
       /\ (Len(l) = 2 /\ Mirrored(l[1], l[2])) => result.value = Zero
       /\ \A f \in Orders(Len(l)) :
            LET other == calculateTransferAdjustment(Reordered(l, f), date).value
            IN /\ IsFinite(other)
               /\ Len(l) <= 2 => other = result.value
               /\ Abs(other.v - result.value.v) * 2^(PBits - 1)
                     <= Len(l) * Magnitudes(l, date, Len(l))

\* C15 witness: an arrival fully ramped and its mirrored departure cancel to 0.
C15_Witness ==
  /\ Returned("calculateTransferAdjustment")
  /\ Len(call.args.transfers) = 2
  /\ Mirrored(call.args.transfers[1], call.args.transfers[2])
  /\ Contribution(call.args.transfers[1], call.args.currentDate) # Zero
  /\ result.value = Zero

\* C15 witness of the order: three transfers whose sum differs under another
\* order, within the rounding of the additions.
C15_OrderWitness ==
  /\ Returned("calculateTransferAdjustment")
  /\ Len(call.args.transfers) = 3
  /\ \E f \in Orders(3) :
        calculateTransferAdjustment(Reordered(call.args.transfers, f),
                                    call.args.currentDate).value # result.value


\* C16: for a manager change on or before the date, calculateManagerAdjustment
\* returns tier_delta[tier] * e^(-elapsed days / lambda_days): tier_delta[tier]
\* itself at 0 elapsed days, of the sign of tier_delta[tier], never larger in
\* magnitude than tier_delta[tier], and never larger in magnitude one clock tick
\* later (hence at any later date).  An elite hire (+20) with lambda 45 is worth
\* about 7.36 after 45 days.
C16_ManagerDecay ==
  (/\ Returned("calculateManagerAdjustment")
   /\ ~call.args.managerChange.isNull
   /\ call.args.currentDate >= call.args.managerChange.changeDate) =>
    LET change == call.args.managerChange
        date == call.args.currentDate
        delta == Lookup(config.T1.manager.tier_delta, change.tier)
        days == DaysBetween(date, change.changeDate)
        lambda == config.T1.manager.lambda_days
    IN /\ result.value = FMul(delta, MathExp(FNeg(FDiv(days, lambda))))
       /\ date = change.changeDate => result.value = delta
       /\ IsFinite(result.value) /\ Sgn(result.value.v) = Sgn(delta.v)
       /\ FLe(MathAbs(result.value), MathAbs(delta))
       /\ date < MaxDate =>
            FLe(MathAbs(calculateManagerAdjustment(change, date + 1).value),
                MathAbs(result.value))
       /\ (delta = FromInt(20) /\ lambda = FromInt(45) /\ days = FromInt(45)) =>
            FLt(FromRat(73, 10), result.value) /\ FLt(result.value, FromRat(74, 10))

\* C16 witness: an elite hire 45 days after the change, decayed below its +20.
C16_Witness ==
  /\ Returned("calculateManagerAdjustment")
  /\ ~call.args.managerChange.isNull
  /\ Lookup(config.T1.manager.tier_delta, call.args.managerChange.tier) = FromInt(20)
  /\ DaysBetween(call.args.currentDate, call.args.managerChange.changeDate) = FromInt(45)
  /\ FLt(Zero, result.value) /\ FLt(result.value, FromInt(20))


\* C17: calculateFatigueAdjustment returns
\* -phi * max(0, 4 - restDays) - psi * max(0, matchesIn14Days - 4): rest days from
\* 4 up count like 4 and matches up to 4 count like 4 (their term is 0), one rest
\* day fewer below 4 and one match more above 4 make the result smaller, and the
\* result is never positive; 2 rest days and no match, phi 2 and psi 3, give -4.
C17_Fatigue ==
  Returned("calculateFatigueAdjustment") =>
    LET rest == call.args.restDays
        matches == call.args.matchesIn14Days
        phi == config.T1.fatigue.phi
        psi == config.T1.fatigue.psi
        four == FromInt(4)
        restTerm == FMul(phi, MathMax(Zero, FSub(four, rest)))
        matchTerm == FMul(psi, MathMax(Zero, FSub(matches, four)))
    IN /\ result.value = FNeg(FAdd(restTerm, matchTerm))
       /\ FLe(four, rest) =>
            restTerm = Zero /\ result = calculateFatigueAdjustment(four, matches)
       /\ FLe(matches, four) =>
            matchTerm = Zero /\ result = calculateFatigueAdjustment(rest, four)
       /\ (FLt(rest, four) /\ FLt(Zero, phi)) =>
            FLt(result.value, calculateFatigueAdjustment(FAdd(rest, One), matches).value)
       /\ (FLe(four, matches) /\ FLt(Zero, psi)) =>
            FLt(calculateFatigueAdjustment(rest, FAdd(matches, One)).value, result.value)
       /\ (FLe(Zero, phi) /\ FLe(Zero, psi)) => FLe(result.value, Zero)
       /\ (rest = FromInt(2) /\ matches = Zero /\ phi = FromInt(2) /\ psi = FromInt(3)) =>
            result.value = FromInt(-4)

\* C17 witness: 2 rest days and 6 matches in 14 days: both terms penalise.
C17_Witness ==
  /\ Returned("calculateFatigueAdjustment")
  /\ call.args.restDays = FromInt(2)
  /\ call.args.matchesIn14Days = FromInt(6)
  /\ result.value =
       FNeg(FAdd(FMul(config.T1.fatigue.phi, FromInt(2)), FMul(config.T1.fatigue.psi, FromInt(2))))
  /\ FLt(result.value, FromInt(-4))


\* C18: for any raw input toDisplay lies between display_min and display_max, both
\* included, and toDisplay(mu) is the midpoint (display_min + display_max) / 2.
C18_DisplayBounds ==
  Returned("toDisplay") =>
    LET m == config.Mapping
    IN /\ FLe(m.display_min, result.value)
       /\ FLe(result.value, m.display_max)
       /\ call.args.rawElo = m.mu =>
            result.value = FDiv(FAdd(m.display_min, m.display_max), FromInt(2))

\* C18 witness: a raw score far below mu, whose display is display_min itself.
C18_Witness ==
  /\ Returned("toDisplay")
  /\ IsFinite(call.args.rawElo)
  /\ FLt(call.args.rawElo, Zero)
  /\ result.value = config.Mapping.display_min

\* Raw scores of the range 1000 to 2500.
InMonotonicRange(raw) == FLe(FromInt(1000), raw) /\ FLe(raw, FromInt(2500))

\* C19 as stated: toDisplay is strictly increasing: a larger raw score always has
\* a larger display score.
C19_AsStated ==
  (Returned("toDisplay") /\ IsFinite(call.args.rawElo)) =>
    \A raw2 \in RawElos :
      (IsFinite(raw2) /\ FLt(call.args.rawElo, raw2)
       /\ FLe(raw2, FAdd(call.args.rawElo, FromInt(150)))) =>
        FLt(result.value, toDisplay(raw2))

\* C19 amended: toDisplay never decreases, a larger raw score never has a smaller
\* display score; it is strictly increasing over raw scores from 1000 to 2500
\* that are 50 or more apart.
C19_Monotonic ==
  Returned("toDisplay") =>
    \A raw2 \in RawElos :
      (FLt(call.args.rawElo, raw2)
       /\ (IsFinite(raw2) => FLe(raw2, FAdd(call.args.rawElo, FromInt(150))))) =>
        /\ FLe(result.value, toDisplay(raw2))
        /\ (/\ InMonotonicRange(call.args.rawElo) /\ InMonotonicRange(raw2)
            /\ FLe(FAdd(call.args.rawElo, FromInt(50)), raw2)) =>
             FLt(result.value, toDisplay(raw2))

\* C19 witness: a raw score of the range with a larger one of the range whose
\* display score is larger.
C19_Witness ==
  /\ Returned("toDisplay")
  /\ call.args.rawElo = FromInt(2400)
  /\ FLt(result.value, toDisplay(FromInt(2500)))
  /\ FLt(toDisplay(FromInt(2300)), result.value)


\* The tolerance of the round trip at PBits significant bits, in raw points: the
\* rounding of a display score near display_max moves the raw score it inverts
\* to by up to this much (8 at 10 bits; at the 53 bits of a double the error over
\* the range of the round-trip test stays below 1e-11).
RoundTripTolerance == FromInt(2^(13 - PBits))

\* toRaw(toDisplay(x)) recovers the raw score x within the tolerance.
Recovered(x, display) ==
  LET back == toRaw(display)
  IN IsFinite(back) /\ FLe(MathAbs(FSub(back, x)), RoundTripTolerance)

\* Raw scores between the smallest and the largest of the round-trip test.
InRoundTripRange(raw) == FLe(FromInt(1200), raw) /\ FLe(raw, FromInt(2400))

\* C20 as stated: toRaw inverts toDisplay: for every finite raw score x,
\* toRaw(toDisplay(x)) is x within the tolerance.
C20_AsStated ==
  (Returned("toDisplay") /\ IsFinite(call.args.rawElo)) =>
    Recovered(call.args.rawElo, result.value)

\* C20 amended: toRaw inverts toDisplay over the raw scores from 1200 to 2400,
\* those of the round-trip test among them: toRaw(toDisplay(x)) is x within the
\* tolerance.  Further out the error grows, and where toDisplay has saturated at
\* display_min or display_max toRaw returns -Infinity or +Infinity.
C20_RoundTrip ==
  Returned("toDisplay") =>
    LET x == call.args.rawElo
        m == config.Mapping
    IN /\ InRoundTripRange(x) => Recovered(x, result.value)
       /\ x = m.mu => toRaw(result.value) = x
       /\ result.value = m.display_max => toRaw(result.value) = Inf(1)
       /\ result.value = m.display_min => toRaw(result.value) = Inf(-1)

\* C20 witness: the largest raw score of the round-trip test, recovered within
\* the tolerance from a display score strictly inside the display range.
C20_Witness ==
  /\ Returned("toDisplay")
  /\ call.args.rawElo = FromInt(2400)
  /\ FLt(config.Mapping.display_min, result.value)
  /\ FLt(result.value, config.Mapping.display_max)
  /\ Recovered(call.args.rawElo, result.value)

\* Whether a display score lies strictly inside the display range.
StrictlyInside(displayScore) ==
  /\ FLt(config.Mapping.display_min, displayScore)
  /\ FLt(displayScore, config.Mapping.display_max)

\* C21: toRaw returns a finite rating for every display score strictly inside
\* (display_min, display_max) and never for one at or outside the bounds: there
\* it returns -Infinity at display_min, +Infinity at display_max and NaN beyond
\* either.
C21_BoundaryUndefined ==
  Returned("toRaw") =>
    LET d == call.args.displayScore
        m == config.Mapping
    IN /\ StrictlyInside(d) => IsFinite(result.value)
       /\ ~StrictlyInside(d) => ~IsFinite(result.value)
       /\ d = m.display_min => result.value = Inf(-1)
       /\ d = m.display_max => result.value = Inf(1)
       /\ (FLt(d, m.display_min) \/ FLt(m.display_max, d)) => IsNaN(result.value)

\* C21 witness: the inverse taken at display_max itself, +Infinity.
C21_Witness ==
  /\ Returned("toRaw")
  /\ call.args.displayScore = config.Mapping.display_max
  /\ result.value = Inf(1)

\* The inverse taken beyond a bound, and one point inside a bound.
C21_BeyondWitness ==
  /\ Returned("toRaw")
  /\ FLt(config.Mapping.display_max, call.args.displayScore)
  /\ IsNaN(result.value)

C21_InsideWitness ==
  /\ Returned("toRaw")
  /\ call.args.displayScore = FSub(config.Mapping.display_max, One)
  /\ IsFinite(result.value)

\* C24: for a manager change dated after the current date the elapsed days are
\* negative and are used as they are: calculateManagerAdjustment returns
\* tier_delta[tier] * e^(-elapsed days / lambda_days) with a positive exponent,
\* so for a tier_delta other than 0 the result keeps the sign of tier_delta, is
\* strictly larger in magnitude than tier_delta, and is strictly larger still
\* one clock tick earlier (the change one tick further in the future).
C24_FutureChangeGrows ==
  (/\ Returned("calculateManagerAdjustment")
   /\ ~call.args.managerChange.isNull
   /\ call.args.currentDate < call.args.managerChange.changeDate) =>
    LET change == call.args.managerChange
        date == call.args.currentDate
        delta == Lookup(config.T1.manager.tier_delta, change.tier)
        days == DaysBetween(date, change.changeDate)
        lambda == config.T1.manager.lambda_days
    IN /\ FLt(days, Zero)
       /\ result.value = FMul(delta, MathExp(FDiv(FNeg(days), lambda)))
       /\ delta = Zero => result.value = Zero
       /\ delta # Zero =>
            /\ Sgn(result.value.v) = Sgn(delta.v)
            /\ FLt(MathAbs(delta), MathAbs(result.value))
            /\ date > 0 =>
                 FLt(MathAbs(result.value),
                     MathAbs(calculateManagerAdjustment(change, date - 1).value))

\* C24 witness: a risky hire (-8) read 45 days before its change date, worth
\* less than -8 * 2.
C24_Witness ==
  /\ Returned("calculateManagerAdjustment")
  /\ ~call.args.managerChange.isNull
  /\ Lookup(config.T1.manager.tier_delta, call.args.managerChange.tier) = FromInt(-8)
  /\ DaysBetween(call.args.currentDate, call.args.managerChange.changeDate) = FromInt(-45)
  /\ FLt(result.value, FromInt(-16))

\* The parameter set has K_base > 0, alpha >= 0 and cap_goals >= 0, and the
\* competition of the match input i has a positive weight.
PositiveStakes(i) ==
  /\ FLt(Zero, config.T0.K_base)
  /\ FLt(Zero, getCompetitionWeight(i.competitionType))
  /\ FLe(Zero, config.T0.margin.alpha)
  /\ FLe(Zero, config.T0.margin.cap_goals)

\* The sign of a number: -1, 0 or 1.
SignOf(a) == Sgn(a.v)

\* The rating gap that enters the home expectancy: homeRating - awayRating + H.
GapOf(i) ==
  FAdd(FSub(i.homeRating, i.awayRating), homeAdvantageFor(i.isNeutralVenue))

\* The largest gap, in rating points, up to which 1 - homeExpected is told from
\* 0 at PBits significant bits.
DecidedGap == FromInt(1100)

\* C26 as stated: with K_base > 0, a positive weight and alpha >= 0, homeDelta is
\* strictly positive for every home win, strictly negative for every home loss,
\* and for a draw has the sign of 0.5 - homeExpected.
C26_AsStated ==
  (Returned("processMatch") /\ PositiveStakes(call.args)) =>
    LET i == call.args
        delta == result.value.homeDelta
    IN /\ FGt(i.homeGoals, i.awayGoals) => FLt(Zero, delta)
       /\ FLt(i.homeGoals, i.awayGoals) => FLt(delta, Zero)
       /\ FEq(i.homeGoals, i.awayGoals) =>
            SignOf(delta) = SignOf(FSub(Half, result.value.homeExpected))

\* C26 amended: with K_base > 0, a positive weight, alpha >= 0 and cap_goals >= 0,
\* homeDelta is never negative for a home win and never positive for a home
\* loss; it is strictly positive for a home win whenever homeExpected is below 1
\* or the margin bonus is positive, and strictly negative for a home loss
\* whenever homeExpected is above 0 or the margin bonus is negative; homeExpected
\* is strictly between 0 and 1 for every gap homeRating - awayRating + H of
\* magnitude up to DecidedGap.  For a draw homeDelta has the sign of
\* 0.5 - homeExpected, so a draw between equal ratings at a venue that is not
\* neutral, with H_home_adv > 0, has a negative homeDelta and does not raise the
\* home rating.
C26_DeltaSign ==
  (Returned("processMatch") /\ PositiveStakes(call.args)) =>
    LET i == call.args
        delta == result.value.homeDelta
        he == result.value.homeExpected
        mb == marginBonus(i.homeGoals, i.awayGoals)
    IN /\ FGt(i.homeGoals, i.awayGoals) =>
            /\ FLe(Zero, delta)
            /\ (FLt(he, One) \/ FLt(Zero, mb)) => FLt(Zero, delta)
       /\ FLt(i.homeGoals, i.awayGoals) =>
            /\ FLe(delta, Zero)
            /\ (FLt(Zero, he) \/ FLt(mb, Zero)) => FLt(delta, Zero)
       /\ FLe(MathAbs(GapOf(i)), DecidedGap) => FLt(Zero, he) /\ FLt(he, One)
       /\ FEq(i.homeGoals, i.awayGoals) =>
            /\ SignOf(delta) = SignOf(FSub(Half, he))
            /\ (/\ i.homeRating = i.awayRating
                /\ i.isNeutralVenue # "true"
                /\ FLt(Zero, config.T0.H_home_adv)) =>
                 /\ FLt(delta, Zero)
                 /\ FLe(result.value.homeNewRating, i.homeRating)

\* C26 witness: a drawn match between equal ratings at the home side's ground,
\* the home rating lowered.
C26_Witness ==
  /\ Returned("processMatch")
  /\ PositiveStakes(call.args)
  /\ FEq(call.args.homeGoals, call.args.awayGoals)
  /\ call.args.homeRating = call.args.awayRating
  /\ call.args.isNeutralVenue = "false"
  /\ FLt(result.value.homeDelta, Zero)
  /\ FLt(result.value.homeNewRating, call.args.homeRating)

\* A home win, and a home loss, inside the decided gap.
C26_WinWitness ==
  /\ Returned("processMatch")
  /\ FGt(call.args.homeGoals, call.args.awayGoals)
  /\ FLt(call.args.homeRating, call.args.awayRating)
  /\ ~config.T0.margin.enabled
  /\ FLt(Zero, result.value.homeDelta)

C26_LossWitness ==
  /\ Returned("processMatch")
  /\ FLt(call.args.homeGoals, call.args.awayGoals)
  /\ FGt(call.args.homeRating, call.args.awayRating)
  /\ ~config.T0.margin.enabled
  /\ FLt(result.value.homeDelta, Zero)

\* The match input i with the two teams exchanged: ratings and goals swapped.
SwappedTeams(i) ==
  [i EXCEPT !.homeRating = i.awayRating, !.awayRating = i.homeRating,
            !.homeGoals = i.awayGoals, !.awayGoals = i.homeGoals]

\* What processMatch returns with the two teams of the invocation exchanged.
SwappedResult == processMatch(SwappedTeams(call.args)).value

\* processMatch has returned for a match at a neutral venue.
NeutralMatch == Returned("processMatch") /\ call.args.isNeutralVenue = "true"

\* Two numbers agree to within 2^-(PBits - 4) of the scale: sixteen roundings.
Agree(a, b, scale) ==
  /\ IsFinite(a) /\ IsFinite(b)
  /\ Abs(a.v - b.v) * 2^(PBits - 4) <= scale.v

\* The scale of homeDelta, K + |margin bonus|, and of the new ratings.
DeltaScale(i) ==
  FAdd(FMul(config.T0.K_base, getCompetitionWeight(i.competitionType)),
       MathAbs(marginBonus(i.homeGoals, i.awayGoals)))
RatingScale(i) == FAdd(MathMax(MathAbs(i.homeRating), MathAbs(i.awayRating)), DeltaScale(i))

\* C27 as stated: at a neutral venue, exchanging the two teams exchanges
\* homeExpected and awayExpected, negates homeDelta and leaves each team its new
\* rating.
C27_AsStated ==
  NeutralMatch =>
    /\ SwappedResult.homeExpected = result.value.awayExpected
    /\ SwappedResult.awayExpected = result.value.homeExpected
    /\ SwappedResult.homeDelta = FNeg(result.value.homeDelta)
    /\ SwappedResult.homeNewRating = result.value.awayNewRating
    /\ SwappedResult.awayNewRating = result.value.homeNewRating

\* C27 amended: at a neutral venue, exchanging the two teams exchanges
\* homeExpected and awayExpected, negates homeDelta and leaves each team its new
\* rating, up to the rounding of the arithmetic: the expectancies agree to
\* within 2^-(PBits - 4), homeDelta to within that times K + |margin bonus|, the
\* new ratings to within that times the larger rating plus K + |margin bonus|.
\* Between equal ratings the exchange is exact.
C27_NeutralSwap ==
  NeutralMatch =>
    LET i == call.args
        r == result.value
        o == SwappedResult
    IN /\ Agree(o.homeExpected, r.awayExpected, One)
       /\ Agree(o.awayExpected, r.homeExpected, One)
       /\ Agree(o.homeDelta, FNeg(r.homeDelta), DeltaScale(i))
       /\ o.awayDelta = FNeg(o.homeDelta)
       /\ Agree(o.homeNewRating, r.awayNewRating, RatingScale(i))
       /\ Agree(o.awayNewRating, r.homeNewRating, RatingScale(i))
       /\ i.homeRating = i.awayRating =>
            /\ o.homeExpected = r.awayExpected /\ o.awayExpected = r.homeExpected
            /\ o.homeDelta = FNeg(r.homeDelta)
            /\ o.homeNewRating = r.awayNewRating /\ o.awayNewRating = r.homeNewRating

\* C27 witness: a decided match between unequal ratings at a neutral venue, the
\* exchanged call handing the ratings to the other side.
C27_Witness ==
  /\ NeutralMatch
  /\ call.args.homeRating # call.args.awayRating
  /\ call.args.homeGoals # call.args.awayGoals
  /\ result.value.homeDelta # Zero
  /\ SwappedResult.homeDelta # result.value.homeDelta
  /\ Agree(SwappedResult.homeNewRating, result.value.awayNewRating, RatingScale(call.args))

\* The TeamState that joins a NewsInput to a base rating.
WithBaseElo(n, baseElo) ==
  [baseElo |-> baseElo, injuries |-> n.injuries, transfers |-> n.transfers,
   managerChange |-> n.managerChange, restDays |-> n.restDays,
   matchesIn14Days |-> n.matchesIn14Days, currentDate |-> n.currentDate]

\* The four components as the calculators return them for a NewsInput.
ComponentsOf(n) ==
  [injury |-> calculateInjuryAdjustment(n.injuries).value,
   transfer |-> calculateTransferAdjustment(n.transfers, n.currentDate).value,
   manager |-> calculateManagerAdjustment(n.managerChange, n.currentDate).value,
   fatigue |-> calculateFatigueAdjustment(n.restDays, n.matchesIn14Days).value]

\* computeTSI on the NewsInput of the invocation and a base rating agrees with
\* the four components that calculateTotalNewsAdjustment returned.
SameComponents(baseElo) ==
  LET tsi == computeTSI(WithBaseElo(call.args, baseElo))
      c == result.value.components
  IN /\ tsi.outcome = "return"
     /\ tsi.value.components.injuryAdj = c.injury
     /\ tsi.value.components.transferAdj = c.transfer
     /\ tsi.value.components.managerAdj = c.manager
     /\ tsi.value.components.fatigueAdj = c.fatigue

\* |injury| + |transfer| + |manager| + |fatigue| of the returned components.
NewsMagnitude ==
  LET c == result.value.components
  IN FAdd(FAdd(FAdd(MathAbs(c.injury), MathAbs(c.transfer)), MathAbs(c.manager)),
          MathAbs(c.fatigue))

\* C30 as stated: the four components of calculateTotalNewsAdjustment are
\* computeTSI's injuryAdj, transferAdj, managerAdj and fatigueAdj, its total is
\* their sum, and computeTSI's tsiRaw is baseElo plus that total.
C30_AsStated ==
  Returned("calculateTotalNewsAdjustment") =>
    \A baseElo \in BaseElos :
      /\ SameComponents(baseElo)
      /\ computeTSI(WithBaseElo(call.args, baseElo)).value.tsiRaw
           = FAdd(baseElo, result.value.total)

\* C30 amended: the four components of calculateTotalNewsAdjustment are those
\* the calculators return and are computeTSI's injuryAdj, transferAdj, managerAdj
\* and fatigueAdj; its total is injury + transfer + manager + fatigue added in
\* that order; computeTSI's tsiRaw is baseElo plus that total up to the rounding
\* of the additions, within 2^-(PBits - 4) times |baseElo| + |injury| +
\* |transfer| + |manager| + |fatigue|, and exactly when all four components are 0.
C30_TotalsAgree ==
  Done("calculateTotalNewsAdjustment") =>
    /\ result.outcome = "return"
    /\ LET c == result.value.components
       IN /\ c = ComponentsOf(call.args)
          /\ result.value.total
               = FAdd(FAdd(FAdd(c.injury, c.transfer), c.manager), c.fatigue)
          /\ \A baseElo \in BaseElos :
               LET tsiRaw == computeTSI(WithBaseElo(call.args, baseElo)).value.tsiRaw
               IN /\ SameComponents(baseElo)
                  /\ Agree(tsiRaw, FAdd(baseElo, result.value.total),
                           FAdd(MathAbs(baseElo), NewsMagnitude))
                  /\ NewsMagnitude = Zero => tsiRaw = baseElo

\* C30 witness: injuries, transfers, a manager change and fatigue all at work,
\* each component other than 0 and the total other than any one of them.
C30_Witness ==
  /\ Returned("calculateTotalNewsAdjustment")
  /\ result.value.components.injury # Zero
  /\ result.value.components.transfer # Zero
  /\ result.value.components.manager # Zero
  /\ result.value.components.fatigue # Zero
  /\ \E baseElo \in BaseElos : SameComponents(baseElo)
  /\ FLt(result.value.total, result.value.components.injury)

\* What an invocation returns when it runs alone under the parameter set.
RunAlone(c) ==
  CASE c.op = "processMatch" -> processMatch(c.args)
    [] c.op = "computeTSI" -> computeTSI(c.args)
    [] c.op = "calculateTotalNewsAdjustment" -> calculateTotalNewsAdjustment(c.args)
    [] c.op = "calculateInjuryAdjustment" -> calculateInjuryAdjustment(c.args.injuries)
    [] c.op = "calculateTransferAdjustment" ->
         calculateTransferAdjustment(c.args.transfers, c.args.currentDate)
    [] c.op = "calculateManagerAdjustment" ->
         calculateManagerAdjustment(c.args.managerChange, c.args.currentDate)
    [] c.op = "calculateFatigueAdjustment" ->
         calculateFatigueAdjustment(c.args.restDays, c.args.matchesIn14Days)
    [] c.op = "toDisplay" -> Return(toDisplay(c.args.rawElo))
    [] c.op = "toRaw" -> Return(toRaw(c.args.displayScore))

\* The exposed functions.
ExposedOps ==
  {"processMatch", "computeTSI", "calculateTotalNewsAdjustment",
   "calculateInjuryAdjustment", "calculateTransferAdjustment",
   "calculateManagerAdjustment", "calculateFatigueAdjustment", "toDisplay", "toRaw"}

\* C22: no step of an exposed function writes the parameter set or the
\* arguments of any invocation: config never changes, and the arguments a caller
\* passed stay as they are until that caller makes its next call; this over any
\* sequence of calls by any of the callers.
C22_InputsUntouched ==
  [][/\ config' = config
     /\ \A c \in Callers :
          \/ frames'[c].call = frames[c].call
          \/ frames[c].at \in {"idle", "done"} /\ frames'[c].at = "entered"]_vars

\* C22 witness: an orchestrating call has returned on non-empty lists of
\* injuries and transfers and a manager change, after a call of another exposed
\* function by the other caller, the parameter set still one of those loaded.
C22_Witness ==
  /\ config \in ParamSets
  /\ \E c \in Callers, d \in Callers :
       /\ c # d
       /\ frames[c].at = "done" /\ frames[c].call.op \in Orchestrators
       /\ frames[c].result.outcome = "return"
       /\ Len(frames[c].call.args.injuries) > 0 /\ Len(frames[c].call.args.transfers) > 0
       /\ ~frames[c].call.args.managerChange.isNull
       /\ frames[d].at = "done" /\ frames[d].call.op \in ExposedOps \ Orchestrators

\* The locals an orchestrating invocation has assigned so far are the values
\* the calculators return on its arguments.
LocalsAsAlone(f) ==
  LET input == f.call.args
  IN /\ f.at \in {"injury", "transfer", "manager", "fatigue"} =>
          f.locals.injury = calculateInjuryAdjustment(input.injuries).value
     /\ f.at \in {"transfer", "manager", "fatigue"} =>
          f.locals.transfer
            = calculateTransferAdjustment(input.transfers, input.currentDate).value
     /\ f.at \in {"manager", "fatigue"} =>
          f.locals.manager
            = calculateManagerAdjustment(input.managerChange, input.currentDate).value
     /\ f.at = "fatigue" =>
          f.locals.fatigue
            = calculateFatigueAdjustment(input.restDays, input.matchesIn14Days).value

\* C23: however the invocations of the callers are interleaved, each returns
\* what it returns when run alone on the same arguments under the parameter set
\* (and holds, while in flight, the locals it holds when run alone), and two
\* invocations with the same arguments return the same.
C23_InterleavingSafe ==
  \A c \in Callers :
    /\ frames[c].at = "done" => frames[c].result = RunAlone(frames[c].call)
    /\ frames[c].call.op \in Orchestrators => LocalsAsAlone(frames[c])
    /\ \A d \in Callers :
         (/\ frames[c].at = "done" /\ frames[d].at = "done"
          /\ frames[c].call = frames[d].call) => frames[c].result = frames[d].result

\* C23 witness: two invocations in flight at once, computeTSI between two of
\* its calculators and processMatch between its two reads of the parameter set.
C23_Witness ==
  \E c \in Callers, d \in Callers :
    /\ frames[c].call.op = "computeTSI" /\ frames[c].at = "transfer"
    /\ frames[c].locals.transfer # Zero
    /\ frames[d].call.op = "processMatch" /\ frames[d].at = "expected"

\* Two invocations of computeTSI on different team states, one returned while
\* the other is in flight.
C23_ReturnedWitness ==
  \E c \in Callers, d \in Callers :
    /\ frames[c].call.op = "computeTSI" /\ frames[c].at = "done"
    /\ frames[d].call.op = "computeTSI" /\ frames[d].at = "manager"
    /\ frames[c].call # frames[d].call
    /\ frames[c].result = RunAlone(frames[c].call)

\* The matches of a list that have both scores, in the order of the list.
Scored(matches) == SelectSeq(matches, LAMBDA m : ~HasNullScore(m))

\* The ratings of the teams after one call of processMatch per match of a list,
\* in the order of the list, every team starting from BASE_ELO.
RECURSIVE Replayed(_, _)
Replayed(teams, matches) ==
  IF matches = <<>> THEN [t \in teams |-> FromInt(BASE_ELO)]
  ELSE LET earlier == Replayed(teams, SubSeq(matches, 1, Len(matches) - 1))
           m == matches[Len(matches)]
           res == processMatch([homeRating |-> earlier[m.homeTeam],
                                awayRating |-> earlier[m.awayTeam],
                                homeGoals |-> m.fullTime.home,
                                awayGoals |-> m.fullTime.away,
                                competitionType |-> "league",
                                isNeutralVenue |-> "false"]).value
       IN [earlier EXCEPT ![m.homeTeam] = res.homeNewRating,
                          ![m.awayTeam] = res.awayNewRating]

\* The matches the loop has gone through.
Visited == SubSeq(run.sorted, 1, run.i - 1)

\* The ids of the matches of a list a team played in, in the order of the list.
MatchIdsOf(matches, t) ==
  LET mine == SelectSeq(matches, LAMBDA m : m.homeTeam = t \/ m.awayTeam = t)
  IN [j \in 1..Len(mine) |-> mine[j].id]

\* C25: once the loop has started, the matches it goes through are the fetched
\* matches in non-decreasing utcDate order whatever order they were fetched in;
\* the ratings are those of one processMatch call per visited match with both
\* scores, in that order, each call on the ratings left by the earlier ones and
\* from BASE_ELO for a team's first match; and every team's history lists each
\* of its scored matches exactly once, in that order.
C25_ChronologicalOnce ==
  run.at \in {"process", "done"} =>
    /\ \A a, b \in 1..Len(run.sorted) : a < b => run.sorted[a].utcDate <= run.sorted[b].utcDate
    /\ Len(run.sorted) = Len(run.fetched)
    /\ \A k \in 1..Len(run.fetched) :
         Cardinality({a \in 1..Len(run.sorted) : run.sorted[a] = run.fetched[k]}) = 1
    /\ run.ratings = Replayed(DOMAIN run.ratings, Scored(Visited))
    /\ \A t \in DOMAIN run.history :
         [j \in 1..Len(run.history[t]) |-> run.history[t][j].matchId]
           = MatchIdsOf(Scored(Visited), t)

\* A run is over whose matches were fetched latest first, and in which a team
\* played a second match on the rating its first match left it.
C25_Witness ==
  /\ run.at = "done"
  /\ \E a, b \in 1..Len(run.fetched) : a < b /\ run.fetched[a].utcDate > run.fetched[b].utcDate
  /\ \E t \in DOMAIN run.history :
       /\ Len(run.history[t]) = 2
       /\ run.history[t][1].tsiRaw # Round2(FromInt(BASE_ELO))

\* The loop is at a match whose home or away full-time score is null.
AtNullScore ==
  /\ run.at = "process"
  /\ run.i <= Len(run.sorted)
  /\ HasNullScore(run.sorted[run.i])

\* C29: a match whose home or away full-time score is null is skipped: the step
\* over it leaves every team's rating, match count, last match date, last five
\* results and history as they were and adds one to skippedMatches; at every
\* point of the loop each team's match count is the length of its history; and
\* in the output totalMatches + skippedMatches is the number of input matches
\* and each team's matchesProcessed is the length of its history.
C29_NullScoreSkipped ==
  /\ [][AtNullScore =>
          /\ run'.ratings = run.ratings
          /\ run'.matchCounts = run.matchCounts
          /\ run'.lastMatchDates = run.lastMatchDates
          /\ run'.last5Results = run.last5Results
          /\ run'.history = run.history
          /\ run'.skippedMatches = run.skippedMatches + 1
          /\ run'.i = run.i + 1]_vars
  /\ [](run.at = "process" =>
          \A t \in DOMAIN run.matchCounts : run.matchCounts[t] = Len(run.history[t]))
  /\ [](run.at = "done" =>
          /\ run.output.totalMatches + run.output.skippedMatches = Len(run.fetched)
          /\ \A q \in 1..Len(run.output.current) :
               run.output.current[q].matchesProcessed
                 = Len(run.output.history[run.output.current[q].id]))

\* A run is over in which a match with only the away score missing was skipped
\* and another match was played.
C29_Witness ==
  /\ run.at = "done"
  /\ \E a \in 1..Len(run.sorted) :
       run.sorted[a].fullTime.home # NullScore /\ run.sorted[a].fullTime.away = NullScore
  /\ run.output.skippedMatches >= 1
  /\ run.output.totalMatches >= 1

\* The exact sum of the ratings of the teams of a set.
RECURSIVE RatingSum(_, _)
RatingSum(ratings, teams) ==
  IF teams = {} THEN 0
  ELSE LET t == CHOOSE x \in teams : TRUE
       IN ratings[t].v + RatingSum(ratings, teams \ {t})

\* How far the sum of the ratings of the registered teams is from the number
\* of registered teams times BASE_ELO.
SumDrift ==
  Abs(RatingSum(run.ratings, DOMAIN run.ratings)
        - Cardinality(DOMAIN run.ratings) * FromInt(BASE_ELO).v)

\* Every rating so far is a finite number from 1024 up to 2048.
RatingsInBinade ==
  LET In(x) == IsFinite(x) /\ FromInt(1024).v <= x.v /\ x.v < FromInt(2048).v
  IN /\ \A t \in DOMAIN run.ratings : In(run.ratings[t])
     /\ \A t \in DOMAIN run.history :
          \A j \in 1..Len(run.history[t]) : In(run.history[t][j].tsiRaw)

\* C28 as stated: the sum of the ratings of all registered teams is the number
\* of registered teams times BASE_ELO, exactly.
C28_AsStated == run.at \in {"process", "done"} => SumDrift = 0

\* C28: rating points are conserved up to rounding: while every rating stays
\* from 1024 up to 2048, the sum of the ratings of the registered teams is
\* within one unit in the last place of such a rating (2^(11 - PBits)) per
\* processed match of the number of registered teams times BASE_ELO, and it is
\* that number exactly before the first match is processed.
C28_ConservedToRounding ==
  (run.at \in {"process", "done"} /\ RatingsInBinade) =>
    SumDrift * 2^PBits <= Len(Scored(Visited)) * 2^11 * Unit

\* A run is over in which three teams have played five matches and none of them
\* is left at BASE_ELO.
C28_Witness ==
  /\ run.at = "done"
  /\ run.output.totalMatches >= 5
  /\ Cardinality(DOMAIN run.ratings) = 3
  /\ \A t \in DOMAIN run.ratings : run.ratings[t] # FromInt(BASE_ELO)
  /\ RatingsInBinade

====
